---- MODULE Spec2Model ----
(***************************************************************************)
(* Layout state engine of the CSS grid designer (hooks/useGridState.ts),   *)
(* with the geometry helper it calls (utils/selection.ts) and the model    *)
(* types and defaults (types/grid.ts).                                     *)
(*                                                                         *)
(* Every handler of the hook is one atomic step: React batches the set     *)
(* calls of one handler, runs each updater once (production build) and     *)
(* re-renders before the next event is delivered, so the values a callback *)
(* closes over (state, history, historyForward, selectedChildId,           *)
(* useNamedAreas) are the current ones when the next handler runs.         *)
(*                                                                         *)
(* JavaScript values: an object is a record (a function on its keys), an   *)
(* array a sequence, undefined the value Undefined, null for the selected  *)
(* id the value Null.  A key holding undefined and a missing key are       *)
(* different records that read the same; JSON text keeps neither.          *)
(*                                                                         *)
(* A text that is scanned (a name) is the sequence of its tokens, each a   *)
(* string, the token " " being a run of white space; a text that is only   *)
(* put together (a CSS value) is a string.  The functions of               *)
(* utils/selection.ts and utils/codegen.ts keep no state: args, callee and *)
(* result hold the arguments, the name and the value of their last call.   *)
(***************************************************************************)
EXTENDS Integers, Sequences, FiniteSets, TLC

\* ------------------------------------------------------------------ bounds
\* history-pushing handler calls explored in one behaviour of Spec
MaxEdits == 2
\* longest pending selection built by addToSelection
MaxPending == 2
\* history-pushing handler calls in one behaviour of SpecIO
MaxIOEdits == 2
\* layout-changing handler calls in one behaviour of SpecInspect
MaxInspectOps == 3
\* drags that end on the canvas or by leaving it in one behaviour of SpecCanvas
MaxCanvasEdits == 2
\* resizes and double undos in one behaviour of SpecBatched
MaxBatchedEdits == 3
\* history-pushing handler calls in one behaviour of SpecResize
MaxResizes == 3
\* history-pushing handler calls in one behaviour of SpecHandEdited
MaxFileEdits == 2
\* pointer events of the drags compared with their pending selection
MaxDragLen == 4
\* longest cell list handed to the selection utilities
MaxCells == 4
\* history-pushing handler calls in one behaviour of SpecCodegen
MaxCodegenEdits == 2
\* longest child list handed to the generators of named areas
MaxChildren == 2

\* ------------------------------------------------------- program constants
MAX_HISTORY == 50
MinTracks == 1
MaxTracks == 20

Breakpoints == {"desktop", "tablet", "mobile"}

Undefined == <<"undefined">>
Null == 0

\* --------------------------------------------------------------- inputs
\* cells the pointer visits
SelCells == { [row |-> 0, column |-> 0], [row |-> 1, column |-> 1] }
\* deltas passed to setRows and to setColumns (the +1 row and -1 column buttons)
RowDeltas == {1}
ColDeltas == {-1}
\* breakpoints the user switches to
BpInputs == {"tablet"}
\* values typed into the inspector's gap fields, and the place-items option chosen
GapInputs == {-4}
PlaceItemsInputs == {"center"}

\* -------------------------------------------------------------- helpers
MinOf(S) == CHOOSE x \in S : \A y \in S : x <= y
MaxOf(S) == CHOOSE x \in S : \A y \in S : x >= y
Range(seq) == { seq[i] : i \in 1..Len(seq) }
\* Array.prototype.slice(-n)
SliceLast(seq, n) ==
  IF Len(seq) <= n THEN seq ELSE SubSeq(seq, Len(seq) - n + 1, Len(seq))
\* slice(0, n) that cuts nothing
SliceFirst_noCut(seq, n) == seq
\* Array.prototype.slice(0, n) for n >= 0
SliceFirst(seq, n) ==
  IF Len(seq) <= n THEN seq ELSE SubSeq(seq, 1, n)
\* Array.prototype.filter
RECURSIVE FilterSeq(_, _)
FilterSeq(seq, keep) ==
  IF seq = <<>> THEN <<>>
  ELSE IF Head(seq) \in keep THEN <<Head(seq)>> \o FilterSeq(Tail(seq), keep)
       ELSE FilterSeq(Tail(seq), keep)

\* ---------------------------------------------------------- types/grid.ts
defaultTrackSize == [type |-> "fr", value |-> 1]

defaultGridDefinition(rowCount, columnCount) ==
  [ rowCount    |-> rowCount,
    columnCount |-> columnCount,
    rowSizes    |-> [i \in 1..rowCount |-> defaultTrackSize],
    columnSizes |-> [i \in 1..columnCount |-> defaultTrackSize],
    gap         |-> 16,
    rowGap      |-> 16,
    columnGap   |-> 16,
    placeItems  |-> "stretch" ]

defaultBreakpointConfig(rowCount, columnCount) ==
  [ grid |-> defaultGridDefinition(rowCount, columnCount), children |-> <<>> ]

defaultLayoutState ==
  [ activeBreakpoint |-> "desktop",
    breakpoints |-> [ bp \in Breakpoints |->
                        CASE bp = "desktop" -> defaultBreakpointConfig(3, 4)
                          [] bp = "tablet"  -> defaultBreakpointConfig(3, 3)
                          [] bp = "mobile"  -> defaultBreakpointConfig(4, 2) ] ]

\* ----------------------------------------------------- utils/selection.ts
cellKey(cell) == <<cell.row, cell.column>>

\* expandToBoundingBox that returns the cells it was given
expandToBoundingBox_keepsInput(cells) == cells
expandToBoundingBox(cells) ==
  IF Len(cells) = 0 THEN <<>>
  ELSE LET rows == { cells[i].row : i \in 1..Len(cells) }
           cols == { cells[i].column : i \in 1..Len(cells) }
           minR == MinOf(rows)
           maxR == MaxOf(rows)
           minC == MinOf(cols)
           maxC == MaxOf(cols)
           w    == maxC - minC + 1
           h    == maxR - minR + 1
       IN [ i \in 1..(h * w) |->
              [row |-> minR + ((i - 1) \div w), column |-> minC + ((i - 1) % w)] ]

\* Set<string> of cell keys: the keys in insertion order, each once
RECURSIVE cellKeySetOf(_, _)
cellKeySetOf(cells, n) ==
  IF n = 0 THEN <<>>
  ELSE LET set == cellKeySetOf(cells, n - 1)
           key == cellKey(cells[n])
       IN IF key \in Range(set) THEN set ELSE Append(set, key)
cellKeySet(cells) == cellKeySetOf(cells, Len(cells))

\* isRectangularSelection that counts the rows of the bounding box only
isRectangularSelection_rowsOnly(cells) ==
  IF Len(cells) = 0 THEN FALSE
  ELSE LET rows == { cells[i].row : i \in 1..Len(cells) }
       IN Len(cells) = MaxOf(rows) - MinOf(rows) + 1
isRectangularSelection(cells) ==
  IF Len(cells) = 0 THEN FALSE
  ELSE LET rows == { cells[i].row : i \in 1..Len(cells) }
           cols == { cells[i].column : i \in 1..Len(cells) }
           minR == MinOf(rows)
           maxR == MaxOf(rows)
           minC == MinOf(cols)
           maxC == MaxOf(cols)
           expectedCount == (maxR - minR + 1) * (maxC - minC + 1)
       IN Len(cells) = expectedCount

\* has(r, c) of splitIntoRectangles
has(set, r, c) == <<r, c>> \in Range(set)

\* while (has(r0, cEnd + 1)) cEnd++
RECURSIVE growRight(_, _, _)
growRight(set, r0, cEnd) ==
  IF has(set, r0, cEnd + 1) THEN growRight(set, r0, cEnd + 1) ELSE cEnd

\* the row loop left at once: the region never grows below the seed's row
growDown_seedRowOnly(set, rEnd, c0, cEnd) == rEnd
\* rowLoop: rEnd++ while the next row holds every column of c0..cEnd
RECURSIVE growDown(_, _, _, _)
growDown(set, rEnd, c0, cEnd) ==
  IF \A c \in c0..cEnd : has(set, rEnd + 1, c)
    THEN growDown(set, rEnd + 1, c0, cEnd)
    ELSE rEnd

\* the cells of rows r0..rEnd and columns c0..cEnd that the set holds, by row
regionOf(set, r0, rEnd, c0, cEnd) ==
  LET w   == cEnd - c0 + 1
      box == [ i \in 1..((rEnd - r0 + 1) * w) |->
                 [row |-> r0 + ((i - 1) \div w), column |-> c0 + ((i - 1) % w)] ]
  IN SelectSeq(box, LAMBDA cell : has(set, cell.row, cell.column))

\* removeRegion that deletes the seed cell only
removeRegion_seedOnly(set, region) ==
  SelectSeq(set, LAMBDA key : key # cellKey(region[1]))
removeRegion(set, region) ==
  SelectSeq(set, LAMBDA key : \A i \in 1..Len(region) : key # cellKey(region[i]))

\* while (set.size > 0) { ... }
RECURSIVE splitLoop(_, _)
splitLoop(set, result) ==
  IF Len(set) = 0 THEN result
  ELSE LET firstKey == set[1]
           r0     == firstKey[1]
           c0     == firstKey[2]
           cEnd   == growRight(set, r0, c0)
           rEnd   == growDown(set, r0, c0, cEnd)
           region == regionOf(set, r0, rEnd, c0, cEnd)
       IN splitLoop(removeRegion(set, region), Append(result, region))

splitIntoRectangles(cells) ==
  IF Len(cells) = 0 THEN <<>> ELSE splitLoop(cellKeySet(cells), <<>>)

\* ------------------------------------------------------------- JSON text
\* what reading child.areaName yields (undefined when the key is missing)
AreaNameOf(c) == IF "areaName" \in DOMAIN c THEN c.areaName ELSE Undefined

\* JSON.stringify leaves out a key whose value is undefined
JsonChild(c) ==
  IF "areaName" \in DOMAIN c /\ c.areaName = Undefined
    THEN [k \in (DOMAIN c) \ {"areaName"} |-> c[k]]
    ELSE c

JsonConfig(cfg) ==
  [cfg EXCEPT !.children = [i \in 1..Len(cfg.children) |-> JsonChild(cfg.children[i])]]

\* JSON.parse(JSON.stringify(layout)) of a layout object
JsonLayout(s) ==
  IF "breakpoints" \in DOMAIN s
    THEN [s EXCEPT !.breakpoints = [bp \in DOMAIN s.breakpoints |-> JsonConfig(s.breakpoints[bp])]]
    ELSE s

\* deepCloneState: JSON.parse(JSON.stringify(state))
deepCloneState(s) == JsonLayout(s)

\* ------------------------------------------------- hooks/useGridState.ts
\* the name `child${n}`
ChildName(n) == <<"child", ToString(n)>>

\* the name numbered by the length of the list (a running count)
nextChildName_counts(children) == ChildName(Len(children) + 1)
nextChildName(children) ==
  LET used == { children[i].name : i \in 1..Len(children) }
  IN ChildName(CHOOSE n \in 1..(Len(children) + 1) :
                 /\ ChildName(n) \notin used
                 /\ \A m \in 1..(n - 1) : ChildName(m) \in used)

\* generateId: a string no earlier call has returned (time stamp and random
\* suffix), modelled by the number of the call
generateId(e) == e.idCounter + 1

\* s.breakpoints[bp] and { ...s, breakpoints: { ...s.breakpoints, [bp]: config } }
ConfigOf(s, bp) == s.breakpoints[bp]
\* the new config written to every breakpoint instead of the one named
WithConfig_everywhere(s, bp, config) ==
  [s EXCEPT !.breakpoints = [k \in (DOMAIN s.breakpoints) \cup {bp} |-> config]]
WithConfig(s, bp, config) ==
  [s EXCEPT !.breakpoints =
     [k \in (DOMAIN s.breakpoints) \cup {bp} |->
        IF k = bp THEN config ELSE s.breakpoints[k]]]

\* pushHistory putting the snapshot at the front of the stack
pushHistory_prepends(e, newState) ==
  [e EXCEPT !.history = SliceLast(<<deepCloneState(newState)>> \o e.history, MAX_HISTORY),
            !.historyForward = <<>>]
\* pushHistory without the slice(-MAX_HISTORY)
pushHistory_noSlice(e, newState) ==
  [e EXCEPT !.history = Append(e.history, deepCloneState(newState)),
            !.historyForward = <<>>]
\* pushHistory that keeps the oldest MAX_HISTORY snapshots
pushHistory_keepsOldest(e, newState) ==
  [e EXCEPT !.history = SliceFirst(Append(e.history, deepCloneState(newState)), MAX_HISTORY),
            !.historyForward = <<>>]
pushHistory(e, newState) ==
  [e EXCEPT !.history = SliceLast(Append(e.history, deepCloneState(newState)), MAX_HISTORY),
            !.historyForward = <<>>]

\* setActiveBreakpoint that keeps the selected child and the pending selection
setActiveBreakpoint_keepsSelection(e, bp) ==
  [e EXCEPT !.state = [e.state EXCEPT !.activeBreakpoint = bp]]
setActiveBreakpoint(e, bp) ==
  [e EXCEPT !.state = [e.state EXCEPT !.activeBreakpoint = bp],
            !.selectedChildId = Null,
            !.pendingSelection = <<>>]

\* the clamp without its upper limit: Math.max(1, n)
clampTracks_noUpper(n) == IF n < MinTracks THEN MinTracks ELSE n
clampTracks(n) ==
  IF n > MaxTracks THEN MaxTracks ELSE IF n < MinTracks THEN MinTracks ELSE n

\* setRows leaving the redo stack as it was
setRows_keepsRedo(e, delta) ==
  LET s        == e.state
      bp       == s.activeBreakpoint
      config   == ConfigOf(s, bp)
      grid     == config.grid
      newCount == clampTracks(grid.rowCount + delta)
      rowSizes == IF newCount > grid.rowCount
                    THEN grid.rowSizes \o [i \in 1..(newCount - grid.rowCount) |-> [type |-> "fr", value |-> 1]]
                    ELSE SliceFirst(grid.rowSizes, newCount)
  IN [e EXCEPT !.history = SliceLast(Append(e.history, deepCloneState(s)), MAX_HISTORY),
               !.state = WithConfig(s, bp,
                   [config EXCEPT !.grid = [grid EXCEPT !.rowCount = newCount, !.rowSizes = rowSizes]])]
setRows(e, delta) ==
  LET s        == e.state
      e1       == pushHistory(e, s)
      bp       == s.activeBreakpoint
      config   == ConfigOf(s, bp)
      grid     == config.grid
      newCount == clampTracks(grid.rowCount + delta)
      rowSizes == IF newCount > grid.rowCount
                    THEN grid.rowSizes \o [i \in 1..(newCount - grid.rowCount) |-> [type |-> "fr", value |-> 1]]
                    ELSE SliceFirst(grid.rowSizes, newCount)
  IN [e1 EXCEPT !.state = WithConfig(s, bp,
                   [config EXCEPT !.grid = [grid EXCEPT !.rowCount = newCount, !.rowSizes = rowSizes]]),
                !.historyForward = <<>>]

setColumns(e, delta) ==
  LET s        == e.state
      e1       == pushHistory(e, s)
      bp       == s.activeBreakpoint
      config   == ConfigOf(s, bp)
      grid     == config.grid
      newCount == clampTracks(grid.columnCount + delta)
      columnSizes == IF newCount > grid.columnCount
                       THEN grid.columnSizes \o [i \in 1..(newCount - grid.columnCount) |-> [type |-> "fr", value |-> 1]]
                       ELSE SliceFirst(grid.columnSizes, newCount)
  IN [e1 EXCEPT !.state = WithConfig(s, bp,
                   [config EXCEPT !.grid = [grid EXCEPT !.columnCount = newCount, !.columnSizes = columnSizes]]),
                !.historyForward = <<>>]

startSelection(e, cell) ==
  [e EXCEPT !.isSelecting = TRUE, !.pendingSelection = <<cell>>]

\* addToSelection without the membership test
addToSelection_alwaysAppends(e, cell) ==
  [e EXCEPT !.pendingSelection = Append(e.pendingSelection, cell)]
addToSelection(e, cell) ==
  LET prev == e.pendingSelection
      key  == cellKey(cell)
  IN IF \E i \in 1..Len(prev) : cellKey(prev[i]) = key
       THEN e
       ELSE [e EXCEPT !.pendingSelection = Append(prev, cell)]

\* keys of the cells owned by locked children of a config
lockedCells(config) ==
  UNION { { cellKey(config.children[i].cells[j]) : j \in 1..Len(config.children[i].cells) } :
            i \in { k \in 1..Len(config.children) : config.children[k].locked } }

\* the test on line 182 of the hook: the expanded selection meets a locked cell
selectionOverlap(e) ==
  LET expanded == expandToBoundingBox(e.pendingSelection)
      config   == ConfigOf(e.state, e.state.activeBreakpoint)
  IN \E i \in 1..Len(expanded) : cellKey(expanded[i]) \in lockedCells(config)

\* endSelection without the early return on overlap
endSelection_noReject(e) ==
  LET e0   == [e EXCEPT !.isSelecting = FALSE]
      prev == e.pendingSelection
  IN IF Len(prev) = 0 THEN [e0 EXCEPT !.pendingSelection = <<>>]
     ELSE
       LET expanded == expandToBoundingBox(prev)
           s        == e.state
           e1       == pushHistory(e0, s)
           bp       == s.activeBreakpoint
           config   == ConfigOf(s, bp)
           name     == nextChildName(config.children)
           child    == [ id       |-> generateId(e),
                         name     |-> name,
                         cells    |-> expanded,
                         locked   |-> FALSE,
                         areaName |-> IF e.useNamedAreas THEN name ELSE Undefined ]
       IN [e1 EXCEPT !.state = WithConfig(s, bp,
                                 [config EXCEPT !.children = Append(config.children, child)]),
                     !.idCounter = e.idCounter + 1,
                     !.historyForward = <<>>,
                     !.pendingSelection = <<>>]
\* endSelection whose rejection returns before the pending selection is emptied
endSelection_rejectKeepsPending(e) ==
  LET e0   == [e EXCEPT !.isSelecting = FALSE]
      prev == e.pendingSelection
  IN IF Len(prev) = 0 THEN [e0 EXCEPT !.pendingSelection = <<>>]
     ELSE
       LET expanded == expandToBoundingBox(prev)
           s        == e.state
           e1       == pushHistory(e0, s)
           bp       == s.activeBreakpoint
           config   == ConfigOf(s, bp)
           name     == nextChildName(config.children)
           child    == [ id       |-> generateId(e),
                         name     |-> name,
                         cells    |-> expanded,
                         locked   |-> FALSE,
                         areaName |-> IF e.useNamedAreas THEN name ELSE Undefined ]
       IN IF selectionOverlap(e) THEN [e1 EXCEPT !.historyForward = <<>>]
          ELSE [e1 EXCEPT !.state = WithConfig(s, bp,
                                 [config EXCEPT !.children = Append(config.children, child)]),
                          !.idCounter = e.idCounter + 1,
                          !.historyForward = <<>>,
                          !.pendingSelection = <<>>]
endSelection(e) ==
  LET e0   == [e EXCEPT !.isSelecting = FALSE]
      prev == e.pendingSelection
  IN IF Len(prev) = 0 THEN [e0 EXCEPT !.pendingSelection = <<>>]
     ELSE
       LET expanded == expandToBoundingBox(prev)
           s        == e.state
           e1       == pushHistory(e0, s)
           bp       == s.activeBreakpoint
           config   == ConfigOf(s, bp)
           overlap  == selectionOverlap(e)
           name     == nextChildName(config.children)
           child    == [ id       |-> generateId(e),
                         name     |-> name,
                         cells    |-> expanded,
                         locked   |-> FALSE,
                         areaName |-> IF e.useNamedAreas THEN name ELSE Undefined ]
           e2       == IF overlap THEN e1
                       ELSE [e1 EXCEPT !.state = WithConfig(s, bp,
                                         [config EXCEPT !.children = Append(config.children, child)]),
                                       !.idCounter = e.idCounter + 1]
       IN [e2 EXCEPT !.historyForward = <<>>, !.pendingSelection = <<>>]

clearSelection(e) ==
  [e EXCEPT !.isSelecting = FALSE, !.pendingSelection = <<>>]

\* GridCanvas: the handler of onMouseLeave on the canvas, with the hook's
\* endSelection as its onEndSelection
handleMouseLeave(e) == IF e.isSelecting THEN endSelection(e) ELSE e

\* deleteChild that clears the selected child id whichever child is deleted
deleteChild_alwaysDeselects(e, id) ==
  LET s        == e.state
      e1       == pushHistory(e, s)
      bp       == s.activeBreakpoint
      config   == ConfigOf(s, bp)
      children == FilterSeq(config.children, { c \in Range(config.children) : c.id # id })
  IN [e1 EXCEPT !.state = WithConfig(s, bp, [config EXCEPT !.children = children]),
                !.historyForward = <<>>,
                !.selectedChildId = Null]
deleteChild(e, id) ==
  LET s        == e.state
      e1       == pushHistory(e, s)
      bp       == s.activeBreakpoint
      config   == ConfigOf(s, bp)
      children == FilterSeq(config.children, { c \in Range(config.children) : c.id # id })
  IN [e1 EXCEPT !.state = WithConfig(s, bp, [config EXCEPT !.children = children]),
                !.historyForward = <<>>,
                !.selectedChildId = IF e.selectedChildId = id THEN Null ELSE e.selectedChildId]

\* A text typed into a field: a name such as <<"child", "2">> or <<"hero", "0">>,
\* the same between blanks (Padded), blanks only (BlankText) or nothing.
EmptyText == <<>>
BlankText == <<" ">>
Padded(name) == <<" ">> \o name \o <<" ">>
\* String.prototype.trim
RECURSIVE trimStart(_)
trimStart(text) ==
  IF Len(text) > 0 /\ text[1] = " " THEN trimStart(Tail(text)) ELSE text
RECURSIVE trimEnd(_)
trimEnd(text) ==
  IF Len(text) > 0 /\ text[Len(text)] = " "
    THEN trimEnd(SubSeq(text, 1, Len(text) - 1))
    ELSE text
trim(text) == trimEnd(trimStart(text))

\* { ...c, key: value }: the object c with the key set, added when c lacks it
WithKey(c, key, value) ==
  [k \in (DOMAIN c) \cup {key} |-> IF k = key THEN value ELSE c[k]]

\* An updater callback is a closure; it is represented by its captured values
\* and applied by callUpdater.
\* (c) => ({ ...c, locked }) of setChildLock
withLocked(locked) == [kind |-> "withLocked", locked |-> locked]
\* (c) => ({ ...c, locked: !c.locked }) of the inspector's lock button
toggleLocked == [kind |-> "toggleLocked"]
\* (c) => ({ ...c, name: name.trim() || c.name, areaName: ... }) of setChildName
\* and of the name field's blur handler
withTrimmedName(name, namedAreas) ==
  [kind |-> "withTrimmedName", name |-> name, useNamedAreas |-> namedAreas]
\* (c) => ({ ...c, name: value, areaName: ... }) of the name field's change handler
withTypedName(value, namedAreas) ==
  [kind |-> "withTypedName", name |-> value, useNamedAreas |-> namedAreas]

callUpdater(updater, c) ==
  CASE updater.kind = "withLocked" -> [c EXCEPT !.locked = updater.locked]
    [] updater.kind = "toggleLocked" -> [c EXCEPT !.locked = ~c.locked]
    [] updater.kind = "withTrimmedName" ->
         LET name == IF trim(updater.name) # EmptyText THEN trim(updater.name) ELSE c.name
         IN WithKey([c EXCEPT !.name = name], "areaName",
                    IF updater.useNamedAreas THEN name ELSE Undefined)
    [] updater.kind = "withTypedName" ->
         WithKey([c EXCEPT !.name = updater.name], "areaName",
                 IF updater.useNamedAreas THEN updater.name ELSE Undefined)

\* the inspector's grid updaters: (g) => ({ ...g, gap: Math.max(0, Number(v) || 0) })
\* and the same for rowGap, columnGap; (g) => ({ ...g, placeItems: v })
gapValue(v) == IF v > 0 THEN v ELSE 0
withGap(key, v) == [kind |-> "withGap", key |-> key, value |-> gapValue(v)]
withPlaceItems(v) == [kind |-> "withPlaceItems", value |-> v]

callGridUpdater(updater, g) ==
  CASE updater.kind = "withGap" -> WithKey(g, updater.key, updater.value)
    [] updater.kind = "withPlaceItems" -> [g EXCEPT !.placeItems = updater.value]

setGridDefinition(e, updater) ==
  LET s          == e.state
      bp         == s.activeBreakpoint
      config     == ConfigOf(s, bp)
      nextGrid   == callGridUpdater(updater, config.grid)
      nextConfig == [config EXCEPT !.grid = nextGrid]
  IN [e EXCEPT !.state = WithConfig(s, bp, nextConfig)]

\* updateChild that snapshots the state first, as the resize handlers do
updateChild_pushes(e, id, updater) ==
  LET s        == e.state
      e1       == pushHistory(e, s)
      bp       == s.activeBreakpoint
      config   == ConfigOf(s, bp)
      children == [i \in 1..Len(config.children) |->
                     IF config.children[i].id = id THEN callUpdater(updater, config.children[i])
                     ELSE config.children[i]]
  IN [e1 EXCEPT !.state = WithConfig(s, bp, [config EXCEPT !.children = children])]
updateChild(e, id, updater) ==
  LET s        == e.state
      bp       == s.activeBreakpoint
      config   == ConfigOf(s, bp)
      children == [i \in 1..Len(config.children) |->
                     IF config.children[i].id = id THEN callUpdater(updater, config.children[i])
                     ELSE config.children[i]]
  IN [e EXCEPT !.state = WithConfig(s, bp, [config EXCEPT !.children = children])]

setChildLock(e, id, locked) == updateChild(e, id, withLocked(locked))

setChildName(e, id, name) == updateChild(e, id, withTrimmedName(name, e.useNamedAreas))

setSelectedChildId(e, id) == [e EXCEPT !.selectedChildId = id]
setUseNamedAreas(e, flag) == [e EXCEPT !.useNamedAreas = flag]

\* undo that restores the breakpoint configs of the snapshot and stays on the
\* breakpoint that is active
undo_keepsBreakpoint(e) ==
  IF Len(e.history) = 0 THEN e
  ELSE LET prev == e.history[Len(e.history)]
       IN [e EXCEPT !.history = SubSeq(e.history, 1, Len(e.history) - 1),
                    !.historyForward = <<deepCloneState(e.state)>> \o e.historyForward,
                    !.state = [deepCloneState(prev) EXCEPT
                                 !.activeBreakpoint = e.state.activeBreakpoint],
                    !.selectedChildId = Null]
\* undo that puts the current state on the redo stack before it looks at the
\* undo stack
undo_emptyPushesRedo(e) ==
  IF Len(e.history) = 0
    THEN [e EXCEPT !.historyForward = <<deepCloneState(e.state)>> \o e.historyForward]
  ELSE LET prev == e.history[Len(e.history)]
       IN [e EXCEPT !.history = SubSeq(e.history, 1, Len(e.history) - 1),
                    !.historyForward = <<deepCloneState(e.state)>> \o e.historyForward,
                    !.state = deepCloneState(prev),
                    !.selectedChildId = Null]
undo(e) ==
  IF Len(e.history) = 0 THEN e
  ELSE LET prev == e.history[Len(e.history)]
       IN [e EXCEPT !.history = SubSeq(e.history, 1, Len(e.history) - 1),
                    !.historyForward = <<deepCloneState(e.state)>> \o e.historyForward,
                    !.state = deepCloneState(prev),
                    !.selectedChildId = Null]

\* undo as the callback one render built (its dependencies are [history,
\* state]): the guard, prev and the state put on the redo stack are the values
\* of that render, while the updaters given to setHistory and
\* setHistoryForward run on the queued values
undoOfRender(render, e) ==
  IF Len(render.history) = 0 THEN e
  ELSE LET prev == render.history[Len(render.history)]
       IN [e EXCEPT !.history = IF Len(e.history) = 0 THEN <<>>
                                 ELSE SubSeq(e.history, 1, Len(e.history) - 1),
                    !.historyForward = <<deepCloneState(render.state)>> \o e.historyForward,
                    !.state = deepCloneState(prev),
                    !.selectedChildId = Null]

\* redo that does not put the current state back on the undo stack
redo_dropsCurrent(e) ==
  IF Len(e.historyForward) = 0 THEN e
  ELSE LET next == e.historyForward[1]
       IN [e EXCEPT !.historyForward = Tail(e.historyForward),
                    !.state = deepCloneState(next)]
\* redo that clears the selected child the way undo does
redo_clearsSelection(e) ==
  IF Len(e.historyForward) = 0 THEN e
  ELSE LET next == e.historyForward[1]
       IN [e EXCEPT !.historyForward = Tail(e.historyForward),
                    !.history = Append(e.history, deepCloneState(e.state)),
                    !.state = deepCloneState(next),
                    !.selectedChildId = Null]
redo(e) ==
  IF Len(e.historyForward) = 0 THEN e
  ELSE LET next == e.historyForward[1]
       IN [e EXCEPT !.historyForward = Tail(e.historyForward),
                    !.history = Append(e.history, deepCloneState(e.state)),
                    !.state = deepCloneState(next)]

canUndo(e) == Len(e.history) > 0
canRedo(e) == Len(e.historyForward) > 0

\* JSON.stringify(data, null, 2): the text of an object; the layout inside
\* is written as JSON
JSONstringify(data) ==
  [kind |-> "object", value |-> [data EXCEPT !.layout = JsonLayout(data.layout)]]

exportLayout(e) ==
  JSONstringify([ version    |-> 1,
                  layout     |-> deepCloneState(e.state),
                  exportedAt |-> "now" ])

\* the value importLayout returns for a text: false when JSON.parse throws
\* (kind "garbage"), when reading data.version throws (the text `null`), or
\* when one of the two checks fails
\* importLayout without the check of activeBreakpoint
importLayoutResult_noBpCheck(text) ==
  IF text.kind # "object" THEN FALSE
  ELSE LET data == text.value
       IN IF \/ ~("version" \in DOMAIN data /\ data.version = 1)
             \/ ~("layout" \in DOMAIN data /\ "breakpoints" \in DOMAIN data.layout)
            THEN FALSE
          ELSE TRUE
importLayoutResult(text) ==
  IF text.kind # "object" THEN FALSE
  ELSE LET data == text.value
       IN IF \/ ~("version" \in DOMAIN data /\ data.version = 1)
             \/ ~("layout" \in DOMAIN data /\ "breakpoints" \in DOMAIN data.layout)
            THEN FALSE
          ELSE IF ~( /\ "activeBreakpoint" \in DOMAIN data.layout
                     /\ data.layout.activeBreakpoint \in {"desktop", "tablet", "mobile"} )
            THEN FALSE
          ELSE TRUE

\* importLayout taking the breakpoints of the file but not its activeBreakpoint
importLayout_keepsActive(e, text) ==
  IF importLayoutResult(text)
    THEN [e EXCEPT !.state = [deepCloneState(text.value.layout) EXCEPT
                                !.activeBreakpoint = e.state.activeBreakpoint],
                   !.history = <<>>,
                   !.historyForward = <<>>,
                   !.selectedChildId = Null]
    ELSE e
\* importLayout that forgets to empty the redo stack
importLayout_keepsRedo(e, text) ==
  IF importLayoutResult(text)
    THEN [e EXCEPT !.state = deepCloneState(text.value.layout),
                   !.history = <<>>,
                   !.selectedChildId = Null]
    ELSE e
importLayout(e, text) ==
  IF importLayoutResult(text)
    THEN [e EXCEPT !.state = deepCloneState(text.value.layout),
                   !.history = <<>>,
                   !.historyForward = <<>>,
                   !.selectedChildId = Null]
    ELSE e

\* ------------------------------------------------------- utils/codegen.ts
\* how a call ends: with a value, or with an exception thrown
NormalCompletion(value) == [type |-> "normal", value |-> value]
ThrowCompletion == [type |-> "throw", value |-> <<"TypeError">>]

\* Array.prototype.join on texts: the texts with the separator between them
RECURSIVE JoinTexts(_, _)
JoinTexts(texts, sep) ==
  IF Len(texts) = 0 THEN <<>>
  ELSE IF Len(texts) = 1 THEN texts[1]
  ELSE texts[1] \o sep \o JoinTexts(Tail(texts), sep)

\* Array.prototype.join on strings
RECURSIVE JoinStrings(_, _)
JoinStrings(strings, sep) ==
  IF Len(strings) = 0 THEN ""
  ELSE IF Len(strings) = 1 THEN strings[1]
  ELSE strings[1] \o sep \o JoinStrings(Tail(strings), sep)

formatTrackSize(size) ==
  CASE size.type = "fr" -> ToString(size.value) \o "fr"
    [] size.type = "px" -> ToString(size.value) \o "px"
    [] size.type = "percent" -> ToString(size.value) \o "%"
    [] size.type = "auto" -> "auto"
    [] size.type = "minmax" -> "minmax(" \o size.min \o ", " \o size.max \o ")"
    [] OTHER -> "1fr"

formatPlaceItems(p) == IF p = "normal" THEN "normal" ELSE p

\* name.trim().replace(/\s+/g, '-') || 'child'
toClassName(name) ==
  LET t        == trim(name)
      replaced == [ i \in 1..Len(t) |-> IF t[i] = " " THEN "-" ELSE t[i] ]
  IN IF Len(replaced) = 0 THEN <<"child">> ELSE replaced

\* the track list of one axis, or repeat(n, 1fr) when sizes and count differ
trackList(sizes, count) ==
  IF Len(sizes) = count
    THEN JoinStrings([ i \in 1..Len(sizes) |-> formatTrackSize(sizes[i]) ], " ")
    ELSE "repeat(" \o ToString(count) \o ", 1fr)"

gapLines(grid) ==
  IF grid.rowGap = grid.columnGap /\ grid.rowGap = grid.gap
    THEN "  gap: " \o ToString(grid.gap) \o "px;"
    ELSE "  row-gap: " \o ToString(grid.rowGap) \o "px;\n  column-gap: "
           \o ToString(grid.columnGap) \o "px;"

placeItemsLine(grid) ==
  IF grid.placeItems # "stretch"
    THEN <<"\n  place-items: " \o formatPlaceItems(grid.placeItems) \o ";">>
    ELSE <<>>

generateParentGridCSS(grid, parentClass) ==
  LET cls  == toClassName(parentClass)
      rows == trackList(grid.rowSizes, grid.rowCount)
      cols == trackList(grid.columnSizes, grid.columnCount)
  IN <<".">> \o cls
       \o <<" {\n  display: grid;\n  grid-template-rows: " \o rows
              \o ";\n  grid-template-columns: " \o cols \o ";\n" \o gapLines(grid)>>
       \o placeItemsLine(grid) \o <<"\n}">>

\* getChildPlacement whose end line is the line after the start line
getChildPlacement_endAfterStart(cells) ==
  IF Len(cells) = 0 THEN [row |-> "auto", column |-> "auto"]
  ELSE LET rows == { cells[i].row : i \in 1..Len(cells) }
           cols == { cells[i].column : i \in 1..Len(cells) }
       IN [ row    |-> ToString(MinOf(rows) + 1),
            column |-> ToString(MinOf(cols) + 1) ]
getChildPlacement(cells) ==
  IF Len(cells) = 0 THEN [row |-> "auto", column |-> "auto"]
  ELSE LET rows     == { cells[i].row : i \in 1..Len(cells) }
           cols     == { cells[i].column : i \in 1..Len(cells) }
           rowStart == MinOf(rows) + 1
           rowEnd   == MaxOf(rows) + 2
           colStart == MinOf(cols) + 1
           colEnd   == MaxOf(cols) + 2
           row      == IF rowEnd - rowStart = 1 THEN ToString(rowStart)
                       ELSE ToString(rowStart) \o " / " \o ToString(rowEnd)
           col      == IF colEnd - colStart = 1 THEN ToString(colStart)
                       ELSE ToString(colStart) \o " / " \o ToString(colEnd)
       IN [row |-> row, column |-> col]

\* the justify-self and align-self lines of a child that has them
selfStr(child) ==
  LET self == (IF "justifySelf" \in DOMAIN child
                 THEN << <<"justify-self: " \o child.justifySelf \o ";">> >> ELSE <<>>)
              \o (IF "alignSelf" \in DOMAIN child
                    THEN << <<"align-self: " \o child.alignSelf \o ";">> >> ELSE <<>>)
  IN IF Len(self) > 0 THEN <<"\n  ">> \o JoinTexts(self, <<"\n  ">>) ELSE <<>>

\* childClass is Undefined when the caller passed none
generateChildCSS(child, childClass) ==
  LET cls == toClassName(IF childClass = Undefined THEN child.name ELSE childClass)
      p   == getChildPlacement(child.cells)
  IN <<".">> \o cls
       \o <<" {\n  grid-row: " \o p.row \o ";\n  grid-column: " \o p.column \o ";">>
       \o selfStr(child) \o <<"\n}">>

\* ch.areaName ?? ch.name
areaNameOrName(ch) == IF AreaNameOf(ch) = Undefined THEN ch.name ELSE ch.areaName

\* an element of the matrix of generateTemplateAreas: null, the hole an
\* assignment beyond the end of a row leaves behind, or [areaName |-> name]
NullCell == [null |-> TRUE]
HoleCell == [hole |-> TRUE]

\* row[c] = value on an array
setIndex(row, c, value) ==
  IF c < 0 THEN row
  ELSE IF c < Len(row) THEN [row EXCEPT ![c + 1] = value]
  ELSE row \o [ i \in 1..(c - Len(row)) |-> HoleCell ] \o <<value>>

\* for (let c = minC; c <= maxC; c++) grid[r][c] = areaName
RECURSIVE paintRow(_, _, _, _)
paintRow(row, c, maxC, areaName) ==
  IF c > maxC THEN row
  ELSE paintRow(setIndex(row, c, [areaName |-> areaName]), c + 1, maxC, areaName)

\* one turn of the loop over the children; grid[r] is undefined for a row
\* outside the matrix and the assignment to grid[r][c] then throws
paintChild(grid, ch) ==
  LET areaName == toClassName(areaNameOrName(ch))
  IN IF Len(areaName) = 0 THEN NormalCompletion(grid)
     ELSE IF Len(ch.cells) = 0 THEN NormalCompletion(grid)
     ELSE LET rows == { ch.cells[i].row : i \in 1..Len(ch.cells) }
              cols == { ch.cells[i].column : i \in 1..Len(ch.cells) }
              minR == MinOf(rows)
              maxR == MaxOf(rows)
              minC == MinOf(cols)
              maxC == MaxOf(cols)
          IN IF minR < 0 \/ maxR >= Len(grid) THEN ThrowCompletion
             ELSE NormalCompletion(
                    [ r \in 1..Len(grid) |->
                        IF r - 1 \in minR..maxR
                          THEN paintRow(grid[r], minC, maxC, areaName)
                          ELSE grid[r] ])

RECURSIVE paintChildren(_, _, _)
paintChildren(grid, children, i) ==
  IF i > Len(children) THEN NormalCompletion(grid)
  ELSE LET painted == paintChild(grid, children[i])
       IN IF painted.type = "throw" THEN painted
          ELSE paintChildren(painted.value, children, i + 1)

\* c ?? '.', a hole being joined as the empty text
cellText(cell) ==
  IF "areaName" \in DOMAIN cell THEN cell.areaName
  ELSE IF "hole" \in DOMAIN cell THEN <<>>
  ELSE <<".">>

generateTemplateAreas(rowCount, columnCount, children) ==
  LET grid    == [ r \in 1..rowCount |-> [ c \in 1..columnCount |-> NullCell ] ]
      painted == paintChildren(grid, children, 1)
  IN IF painted.type = "throw" THEN painted
     ELSE LET rowText(row) == JoinTexts([ c \in 1..Len(row) |-> cellText(row[c]) ], <<" ">>)
              quoted == [ r \in 1..Len(painted.value) |->
                            <<"\"">> \o rowText(painted.value[r]) \o <<"\"">> ]
          IN NormalCompletion(JoinTexts(quoted, <<"\n  ">>))

generateParentGridCSSWithAreas(grid, children, parentClass) ==
  IF ~(Len(children) > 0) THEN NormalCompletion(generateParentGridCSS(grid, parentClass))
  ELSE LET cls   == toClassName(parentClass)
           rows  == trackList(grid.rowSizes, grid.rowCount)
           cols  == trackList(grid.columnSizes, grid.columnCount)
           areas == generateTemplateAreas(grid.rowCount, grid.columnCount, children)
       IN IF areas.type = "throw" THEN areas
          ELSE NormalCompletion(
                 <<".">> \o cls \o <<" {\n  display: grid;\n  grid-template-areas:\n  ">>
                   \o areas.value
                   \o <<";\n  grid-template-rows: " \o rows
                          \o ";\n  grid-template-columns: " \o cols \o ";\n"
                          \o gapLines(grid)>>
                   \o placeItemsLine(grid) \o <<"\n}">>)

generateChildCSSArea(child, childClass) ==
  LET cls      == toClassName(IF childClass = Undefined THEN child.name ELSE childClass)
      areaName == toClassName(areaNameOrName(child))
  IN IF Len(areaName) = 0 THEN generateChildCSS(child, cls)
     ELSE <<".">> \o cls \o <<" {\n  grid-area: ">> \o areaName \o <<";">>
            \o selfStr(child) \o <<"\n}">>

generateFullCSS(config, useAreas, parentClass) ==
  LET parent == IF useAreas
                  THEN generateParentGridCSSWithAreas(config.grid, config.children, parentClass)
                  ELSE NormalCompletion(generateParentGridCSS(config.grid, parentClass))
      blocks == [ i \in 1..Len(config.children) |->
                    IF useAreas THEN generateChildCSSArea(config.children[i], Undefined)
                    ELSE generateChildCSS(config.children[i], Undefined) ]
      childBlocks == JoinTexts(blocks, <<"\n\n">>)
  IN IF parent.type = "throw" THEN parent
     ELSE NormalCompletion(
            parent.value \o (IF Len(childBlocks) > 0 THEN <<"\n\n">> \o childBlocks ELSE <<>>))

\* ------------------------------------------------------------ imported texts
Cell00 == [row |-> 0, column |-> 0]

\* a layout saved in an earlier session: tablet active, one locked child on it
\* (its id, 99, was generated in that session)
SavedLayout ==
  [ activeBreakpoint |-> "tablet",
    breakpoints |-> [ bp \in Breakpoints |->
        CASE bp = "desktop" -> defaultBreakpointConfig(2, 2)
          [] bp = "tablet"  -> [ grid |-> defaultGridDefinition(3, 3),
                                 children |-> << [ id |-> 99, name |-> ChildName(1),
                                                   cells |-> <<Cell00>>, locked |-> TRUE ] >> ]
          [] bp = "mobile"  -> defaultBreakpointConfig(4, 2) ] ]

\* a layout object that only carries the desktop config
DesktopOnlyLayout ==
  [ activeBreakpoint |-> "desktop",
    breakpoints |-> [ bp \in {"desktop"} |-> defaultBreakpointConfig(3, 4) ] ]

\* a layout file edited by hand: its child owns two cells on a diagonal
DiagonalLayout ==
  [ activeBreakpoint |-> "desktop",
    breakpoints |-> [ bp \in Breakpoints |->
        CASE bp = "desktop" -> [ grid |-> defaultGridDefinition(3, 4),
                                 children |-> << [ id |-> 98, name |-> ChildName(1),
                                                   cells |-> << [row |-> 0, column |-> 0],
                                                                [row |-> 1, column |-> 1] >>,
                                                   locked |-> FALSE ] >> ]
          [] bp = "tablet"  -> defaultBreakpointConfig(3, 3)
          [] bp = "mobile"  -> defaultBreakpointConfig(4, 2) ] ]

NoText == [kind |-> "none"]

ImportTexts ==
  << [kind |-> "garbage"],
     [kind |-> "null"],
     [kind |-> "object", value |-> [version |-> 2, layout |-> SavedLayout, exportedAt |-> "then"]],
     [kind |-> "object", value |-> [layout |-> SavedLayout, exportedAt |-> "then"]],
     [kind |-> "object", value |-> [version |-> 1, exportedAt |-> "then"]],
     [kind |-> "object", value |-> [version |-> 1, layout |-> [activeBreakpoint |-> "tablet"]]],
     [kind |-> "object", value |-> [version |-> 1,
         layout |-> [activeBreakpoint |-> "watch", breakpoints |-> SavedLayout.breakpoints]]],
     [kind |-> "object", value |-> [version |-> 1,
         layout |-> [breakpoints |-> SavedLayout.breakpoints]]],
     [kind |-> "object", value |-> [version |-> 1, layout |-> SavedLayout, exportedAt |-> "then"]],
     [kind |-> "object", value |-> [version |-> 1, layout |-> DesktopOnlyLayout, exportedAt |-> "then"]] >>

DiagonalText ==
  [kind |-> "object", value |-> [version |-> 1, layout |-> DiagonalLayout, exportedAt |-> "then"]]

\* ------------------------------------------------------------------ state
VARIABLES
  state,             \* useState<LayoutState>
  history,           \* undo stack, oldest first
  historyForward,    \* redo stack, next first
  selectedChildId,
  pendingSelection,
  isSelecting,
  useNamedAreas,
  idCounter,         \* number of ids generateId has handed out
  exported,          \* the text of the last export (the downloaded file)
  exportedFrom,      \* the LayoutState that was current when it was exported
  fault,             \* the component tree was torn down by a render error
  edits,             \* history-pushing handler calls so far
  lastOp,            \* the handler that ran last, with its outcome
  prevOp,            \* the handler that ran before it
  args,              \* arguments of the last call of a stateless function
  callee,            \* the name of that function
  result             \* what it returned

engineVars == << state, history, historyForward, selectedChildId, pendingSelection,
                 isSelecting, useNamedAreas, idCounter >>
vars == << state, history, historyForward, selectedChildId, pendingSelection,
           isSelecting, useNamedAreas, idCounter, exported, exportedFrom, fault, edits,
           lastOp, prevOp, args, callee, result >>

\* the hook's state as one value
Eng ==
  [ state            |-> state,
    history          |-> history,
    historyForward   |-> historyForward,
    selectedChildId  |-> selectedChildId,
    pendingSelection |-> pendingSelection,
    isSelecting      |-> isSelecting,
    useNamedAreas    |-> useNamedAreas,
    idCounter        |-> idCounter ]

\* currentConfig of the hook is undefined: App reads currentConfig.grid while
\* rendering, which throws and unmounts the tree
RenderThrows(s) == s.activeBreakpoint \notin DOMAIN s.breakpoints

PushOps == {"setRows", "setColumns", "deleteChild", "endSelection:committed"}
\* what prevOp keeps of a handler call
OpClass(op) ==
  IF op \in PushOps THEN "push"
  ELSE IF op \in {"undo", "exportLayout"} THEN op
  ELSE "other"

\* CodeOutputPanel, on its CSS tab without the responsive option (its initial
\* state), generates the CSS of the current config while rendering; an
\* exception thrown there unmounts the tree as well. Of the generators that
\* generateFullCSS calls, only generateTemplateAreas has a statement that can
\* throw, and it is reached through generateParentGridCSSWithAreas when named
\* areas are on and the config has a child.
CodeOutputPanelThrows(s, useAreas) ==
  LET config == ConfigOf(s, s.activeBreakpoint)
  IN /\ ~RenderThrows(s)
     /\ useAreas
     /\ Len(config.children) > 0
     /\ generateTemplateAreas(config.grid.rowCount, config.grid.columnCount,
                               config.children).type = "throw"

\* commit of a handler's batched updates, followed by the re-render
Commit(e, op) ==
  /\ state' = e.state
  /\ history' = e.history
  /\ historyForward' = e.historyForward
  /\ selectedChildId' = e.selectedChildId
  /\ pendingSelection' = e.pendingSelection
  /\ isSelecting' = e.isSelecting
  /\ useNamedAreas' = e.useNamedAreas
  /\ idCounter' = e.idCounter
  /\ fault' = (RenderThrows(e.state) \/ CodeOutputPanelThrows(e.state, e.useNamedAreas))
  /\ lastOp' = op
  /\ prevOp' = OpClass(lastOp)
  /\ UNCHANGED << args, callee, result >>

\* the hook as useState initialises it, nothing exported yet
InitHook ==
  /\ state = defaultLayoutState
  /\ history = <<>>
  /\ historyForward = <<>>
  /\ selectedChildId = Null
  /\ pendingSelection = <<>>
  /\ isSelecting = FALSE
  /\ useNamedAreas = FALSE
  /\ idCounter = 0
  /\ exported = NoText
  /\ exportedFrom = defaultLayoutState
  /\ fault = FALSE
  /\ edits = 0
  /\ lastOp = "init"
  /\ prevOp = "init"

Init ==
  /\ InitHook
  /\ args = [cells |-> <<>>]
  /\ callee = "none"
  /\ result = Null

\* ids of the children the inspector lists (none once the tree is gone)
ActiveChildIds ==
  IF RenderThrows(state) THEN {}
  ELSE LET ch == ConfigOf(state, state.activeBreakpoint).children
       IN { ch[i].id : i \in 1..Len(ch) }

\* ---------------------------------------------------------------- actions
SetActiveBreakpoint(bp) ==
  /\ ~fault
  /\ Commit(setActiveBreakpoint(Eng, bp), "setActiveBreakpoint")
  /\ UNCHANGED <<exported, exportedFrom>>

SetRows(delta) ==
  /\ ~fault
  /\ Commit(setRows(Eng, delta), "setRows")
  /\ UNCHANGED <<exported, exportedFrom>>

SetColumns(delta) ==
  /\ ~fault
  /\ Commit(setColumns(Eng, delta), "setColumns")
  /\ UNCHANGED <<exported, exportedFrom>>

StartSelection(cell) ==
  /\ ~fault
  /\ Commit(startSelection(Eng, cell), "startSelection")
  /\ UNCHANGED <<exported, exportedFrom>>

AddToSelection(cell) ==
  /\ ~fault
  /\ Len(pendingSelection) < MaxPending
  /\ Commit(addToSelection(Eng, cell), "addToSelection")
  /\ UNCHANGED <<exported, exportedFrom>>

EndSelection ==
  /\ ~fault
  /\ Commit(endSelection(Eng),
            IF pendingSelection = <<>> THEN "endSelection:empty"
            ELSE IF selectionOverlap(Eng) THEN "endSelection:rejected"
            ELSE "endSelection:committed")
  /\ UNCHANGED <<exported, exportedFrom>>

ClearSelection ==
  /\ ~fault
  /\ Commit(clearSelection(Eng), "clearSelection")
  /\ UNCHANGED <<exported, exportedFrom>>

\* the pointer leaves the canvas
HandleMouseLeave ==
  /\ ~fault
  /\ Commit(handleMouseLeave(Eng),
            IF ~isSelecting THEN "mouseLeave:idle"
            ELSE IF pendingSelection = <<>> THEN "mouseLeave:empty"
            ELSE IF selectionOverlap(Eng) THEN "mouseLeave:rejected"
            ELSE "mouseLeave:committed")
  /\ UNCHANGED <<exported, exportedFrom>>

DeleteChild(id) ==
  /\ ~fault
  /\ Commit(deleteChild(Eng, id), "deleteChild")
  /\ UNCHANGED <<exported, exportedFrom>>

SetChildLock(id, locked) ==
  /\ ~fault
  /\ Commit(setChildLock(Eng, id, locked), "setChildLock")
  /\ UNCHANGED <<exported, exportedFrom>>

SetGridDefinition(updater) ==
  /\ ~fault
  /\ Commit(setGridDefinition(Eng, updater), "setGridDefinition")
  /\ UNCHANGED <<exported, exportedFrom>>

UpdateChild(id, updater) ==
  /\ ~fault
  /\ Commit(updateChild(Eng, id, updater), "updateChild")
  /\ UNCHANGED <<exported, exportedFrom>>

SetChildName(id, name) ==
  /\ ~fault
  /\ Commit(setChildName(Eng, id, name), "setChildName")
  /\ UNCHANGED <<exported, exportedFrom>>

SetSelectedChildId(id) ==
  /\ ~fault
  /\ Commit(setSelectedChildId(Eng, id), "setSelectedChildId")
  /\ UNCHANGED <<exported, exportedFrom>>

SetUseNamedAreas(flag) ==
  /\ ~fault
  /\ Commit(setUseNamedAreas(Eng, flag), "setUseNamedAreas")
  /\ UNCHANGED <<exported, exportedFrom>>

Undo ==
  /\ ~fault
  /\ Commit(undo(Eng), IF canUndo(Eng) THEN "undo" ELSE "undo:noop")
  /\ UNCHANGED <<exported, exportedFrom>>

\* two undo() calls made by one event handler: both are the callback of the
\* render on screen, and their updates are committed together
UndoTwice ==
  /\ ~fault
  /\ Commit(undoOfRender(Eng, undoOfRender(Eng, Eng)),
            IF canUndo(Eng) THEN "undo:twice" ELSE "undo:noop")
  /\ UNCHANGED <<exported, exportedFrom>>

Redo ==
  /\ ~fault
  /\ Commit(redo(Eng), IF canRedo(Eng) THEN "redo" ELSE "redo:noop")
  /\ UNCHANGED <<exported, exportedFrom>>

ExportLayout ==
  /\ ~fault
  /\ exported' = exportLayout(Eng)
  /\ exportedFrom' = state
  /\ Commit(Eng, "exportLayout")

ImportLayout(text) ==
  /\ ~fault
  /\ Commit(importLayout(Eng, text),
            IF importLayoutResult(text) THEN "importLayout:true" ELSE "importLayout:false")
  /\ UNCHANGED <<exported, exportedFrom>>

\* a call of a stateless function on the arguments at hand
Call(name, value) ==
  /\ callee' = name
  /\ result' = value
  /\ UNCHANGED << args, engineVars, exported, exportedFrom, fault, edits, lastOp, prevOp >>

IsRectangularSelection ==
  Call("isRectangularSelection", isRectangularSelection(args.cells))

ExpandToBoundingBox ==
  Call("expandToBoundingBox", expandToBoundingBox(args.cells))

SplitIntoRectangles ==
  Call("splitIntoRectangles", splitIntoRectangles(args.cells))

GetChildPlacement ==
  Call("getChildPlacement", getChildPlacement(args.cells))

GenerateTemplateAreas ==
  Call("generateTemplateAreas",
       generateTemplateAreas(args.rowCount, args.columnCount, args.children))

\* generateFullCSS calls the child generators on each child of the list in
\* turn; args.child is the position of the child at hand
GenerateChildCSSArea ==
  /\ args.child \in 1..Len(args.children)
  /\ Call("generateChildCSSArea", generateChildCSSArea(args.children[args.child], Undefined))

GenerateChildCSS ==
  /\ args.child \in 1..Len(args.children)
  /\ Call("generateChildCSS", generateChildCSS(args.children[args.child], Undefined))

\* ---------------------------------------------------------- specification
\* the editing engine: resize, drag selection, lock, delete, undo, redo
Next ==
  \/ \E bp \in BpInputs : SetActiveBreakpoint(bp) /\ UNCHANGED edits
  \/ \E d \in RowDeltas : edits < MaxEdits /\ SetRows(d) /\ edits' = edits + 1
  \/ \E d \in ColDeltas : edits < MaxEdits /\ SetColumns(d) /\ edits' = edits + 1
  \/ \E c \in SelCells : StartSelection(c) /\ UNCHANGED edits
  \/ \E c \in SelCells : AddToSelection(c) /\ UNCHANGED edits
  \/ /\ pendingSelection # <<>> => edits < MaxEdits
     /\ EndSelection
     /\ edits' = IF pendingSelection = <<>> THEN edits ELSE edits + 1
  \/ ClearSelection /\ UNCHANGED edits
  \/ \E id \in ActiveChildIds : edits < MaxEdits /\ DeleteChild(id) /\ edits' = edits + 1
  \/ \E id \in ActiveChildIds : \E b \in BOOLEAN : SetChildLock(id, b) /\ UNCHANGED edits
  \/ Undo /\ UNCHANGED edits
  \/ Redo /\ UNCHANGED edits

Spec == Init /\ [][Next]_vars

\* export and import of the layout file, around a few edits
NextIO ==
  \/ ExportLayout /\ UNCHANGED edits
  \/ \E i \in 1..Len(ImportTexts) : ImportLayout(ImportTexts[i]) /\ UNCHANGED edits
  \/ exported # NoText /\ ImportLayout(exported) /\ UNCHANGED edits
  \/ \E bp \in BpInputs : SetActiveBreakpoint(bp) /\ UNCHANGED edits
  \/ \E d \in RowDeltas : edits < MaxIOEdits /\ SetRows(d) /\ edits' = edits + 1
  \/ StartSelection(Cell00) /\ UNCHANGED edits
  \/ /\ pendingSelection # <<>> => edits < MaxIOEdits
     /\ EndSelection
     /\ edits' = IF pendingSelection = <<>> THEN edits ELSE edits + 1
  \/ \E id \in ActiveChildIds \cup {Null} : SetSelectedChildId(id) /\ UNCHANGED edits
  \/ SetUseNamedAreas(TRUE) /\ UNCHANGED edits
  \/ Undo /\ UNCHANGED edits

SpecIO == Init /\ [][NextIO]_vars

\* a long run of edits on one breakpoint, to fill the undo stack
NextHistory ==
  \/ \E d \in RowDeltas : SetRows(d) /\ UNCHANGED edits
  \/ Undo /\ UNCHANGED edits
  \/ Redo /\ UNCHANGED edits

SpecHistory == Init /\ [][NextHistory]_vars

\* the inspector panel next to the canvas: children are drawn, selected,
\* renamed, locked and deleted, the gaps are set, on two breakpoints
\* texts typed into a child's name field, and names passed to setChildName
TypedTexts == { ChildName(2) }
NameTexts == { Padded(<<"hero", "0">>), BlankText }
\* updaters the inspector passes to onGridChange and to onUpdateChild
GridUpdaterInputs ==
  { withGap("rowGap", v) : v \in GapInputs } \cup { withPlaceItems(v) : v \in PlaceItemsInputs }
ChildUpdaterInputs ==
  {toggleLocked} \cup { withTypedName(n, useNamedAreas) : n \in TypedTexts }

NextInspect ==
  \/ \E bp \in BpInputs : SetActiveBreakpoint(bp) /\ UNCHANGED edits
  \/ StartSelection(Cell00) /\ UNCHANGED edits
  \/ /\ pendingSelection # <<>> => edits < MaxInspectOps
     /\ EndSelection
     /\ edits' = IF pendingSelection = <<>> THEN edits ELSE edits + 1
  \/ \E id \in ActiveChildIds : edits < MaxInspectOps /\ DeleteChild(id) /\ edits' = edits + 1
  \/ \E id \in ActiveChildIds \cup {Null} : SetSelectedChildId(id) /\ UNCHANGED edits
  \/ \E u \in GridUpdaterInputs :
       edits < MaxInspectOps /\ SetGridDefinition(u) /\ edits' = edits + 1
  \/ \E id \in ActiveChildIds : \E u \in ChildUpdaterInputs :
       edits < MaxInspectOps /\ UpdateChild(id, u) /\ edits' = edits + 1
  \/ \E id \in ActiveChildIds : \E n \in NameTexts :
       edits < MaxInspectOps /\ SetChildName(id, n) /\ edits' = edits + 1
  \/ \E id \in ActiveChildIds : \E b \in BOOLEAN :
       edits < MaxInspectOps /\ SetChildLock(id, b) /\ edits' = edits + 1
  \/ Undo /\ UNCHANGED edits
  \/ Redo /\ UNCHANGED edits

SpecInspect == Init /\ [][NextInspect]_vars

\* resizing the grid past its limits (25 rows more, 25 columns fewer), around
\* a drag selection, undo and redo
ResizeRowDeltas == {25}
ResizeColDeltas == {-25}

NextResize ==
  \/ \E d \in ResizeRowDeltas : edits < MaxResizes /\ SetRows(d) /\ edits' = edits + 1
  \/ \E d \in ResizeColDeltas : edits < MaxResizes /\ SetColumns(d) /\ edits' = edits + 1
  \/ \E bp \in BpInputs : SetActiveBreakpoint(bp) /\ UNCHANGED edits
  \/ StartSelection(Cell00) /\ UNCHANGED edits
  \/ /\ pendingSelection # <<>> => edits < MaxResizes
     /\ EndSelection
     /\ edits' = IF pendingSelection = <<>> THEN edits ELSE edits + 1
  \/ \E id \in ActiveChildIds : edits < MaxResizes /\ DeleteChild(id) /\ edits' = edits + 1
  \/ Undo /\ UNCHANGED edits
  \/ Redo /\ UNCHANGED edits

SpecResize == Init /\ [][NextResize]_vars

\* drawing children on a layout that may come from a file edited by hand
NextHandEdited ==
  \/ ImportLayout(DiagonalText) /\ UNCHANGED edits
  \/ \E c \in SelCells : StartSelection(c) /\ UNCHANGED edits
  \/ \E c \in SelCells : AddToSelection(c) /\ UNCHANGED edits
  \/ /\ pendingSelection # <<>> => edits < MaxFileEdits
     /\ EndSelection
     /\ edits' = IF pendingSelection = <<>> THEN edits ELSE edits + 1
  \/ \E id \in ActiveChildIds : edits < MaxFileEdits /\ DeleteChild(id) /\ edits' = edits + 1
  \/ Undo /\ UNCHANGED edits
  \/ Redo /\ UNCHANGED edits

SpecHandEdited == Init /\ [][NextHandEdited]_vars

\* the selection utilities and getChildPlacement on every list of at most
\* MaxCells cells of a grid of three rows and two columns, in any order and
\* with repeated cells
CellInputs == { [row |-> r, column |-> c] : r \in 0..2, c \in 0..1 }
CellLists == UNION { [1..n -> CellInputs] : n \in 0..MaxCells }

InitCells ==
  /\ InitHook
  /\ args \in { [cells |-> cells] : cells \in CellLists }
  /\ callee = "none"
  /\ result = Null

NextCells ==
  \/ IsRectangularSelection
  \/ ExpandToBoundingBox
  \/ SplitIntoRectangles
  \/ GetChildPlacement

SpecCells == InitCells /\ [][NextCells]_vars

\* the editor with the code panel in view: children drawn on the cells the
\* canvas shows (those of the current grid), the grid shrunk, named areas
\* switched on and off
CanvasCorners == { [row |-> 0, column |-> 0], [row |-> 2, column |-> 3] }
CanvasCells ==
  IF RenderThrows(state) THEN {}
  ELSE LET grid == ConfigOf(state, state.activeBreakpoint).grid
       IN { c \in CanvasCorners : c.row < grid.rowCount /\ c.column < grid.columnCount }
ShrinkDeltas == {-1}

NextCodegen ==
  \/ \E c \in CanvasCells : StartSelection(c) /\ UNCHANGED edits
  \/ \E c \in CanvasCells : AddToSelection(c) /\ UNCHANGED edits
  \/ /\ pendingSelection # <<>> => edits < MaxCodegenEdits
     /\ EndSelection
     /\ edits' = IF pendingSelection = <<>> THEN edits ELSE edits + 1
  \/ \E d \in ShrinkDeltas : edits < MaxCodegenEdits /\ SetRows(d) /\ edits' = edits + 1
  \/ \E d \in ShrinkDeltas : edits < MaxCodegenEdits /\ SetColumns(d) /\ edits' = edits + 1
  \/ \E flag \in BOOLEAN : SetUseNamedAreas(flag) /\ UNCHANGED edits
  \/ Undo /\ UNCHANGED edits
  \/ Redo /\ UNCHANGED edits

SpecCodegen == Init /\ [][NextCodegen]_vars

\* the generators of named areas on the child lists the editor can hold over a
\* grid of two rows and two columns: children named by nextChildName or by a
\* text typed into the name field (two words, blanks, nothing), with the area
\* name that endSelection and the name field give them, on one cell, on the
\* whole grid, or on a cell that the grid lost when it was shrunk
AreaRowCount == 2
AreaColumnCount == 2
AreaNames == { ChildName(1), <<"my", " ", "box">>, BlankText, EmptyText }
AreaCells ==
  { << [row |-> 0, column |-> 0] >>,
    expandToBoundingBox(<< [row |-> 0, column |-> 0], [row |-> 1, column |-> 1] >>),
    << [row |-> 1, column |-> 2] >>,
    << [row |-> 2, column |-> 1] >> }
\* child lists, the ids in the order generateId hands them out
AreaChildLists ==
  LET children ==
        { [id |-> 0, name |-> n, cells |-> cells, locked |-> FALSE, areaName |-> a] :
            n \in AreaNames, cells \in AreaCells, a \in {Undefined} } \cup
        { [id |-> 0, name |-> n, cells |-> cells, locked |-> FALSE, areaName |-> n] :
            n \in AreaNames, cells \in AreaCells }
  IN UNION { { [ i \in 1..n |-> [list[i] EXCEPT !.id = i] ] : list \in [1..n -> children] } :
             n \in 0..MaxChildren }

InitAreas ==
  /\ InitHook
  /\ args \in { [rowCount |-> AreaRowCount, columnCount |-> AreaColumnCount,
                 children |-> children, child |-> i] :
                  children \in AreaChildLists, i \in 0..MaxChildren }
  /\ args.child \in 1..Len(args.children) \/ (args.child = 0 /\ args.children = <<>>)
  /\ callee = "none"
  /\ result = Null

NextAreas ==
  \/ GenerateTemplateAreas
  \/ GenerateChildCSSArea
  \/ GenerateChildCSS

SpecAreas == InitAreas /\ [][NextAreas]_vars

\* a consumer of the hook that calls undo twice in one event handler, between
\* resizes, breakpoint switches, single undos and redos; the double calls are
\* counted with the resizes, since each can lengthen the redo stack for good
NextBatched ==
  \/ \E d \in RowDeltas : edits < MaxBatchedEdits /\ SetRows(d) /\ edits' = edits + 1
  \/ \E d \in ColDeltas : edits < MaxBatchedEdits /\ SetColumns(d) /\ edits' = edits + 1
  \/ \E bp \in BpInputs : SetActiveBreakpoint(bp) /\ UNCHANGED edits
  \/ Undo /\ UNCHANGED edits
  \/ edits < MaxBatchedEdits /\ UndoTwice /\ edits' = edits + 1
  \/ Redo /\ UNCHANGED edits

SpecBatched == Init /\ [][NextBatched]_vars

\* the canvas under the pointer: a button pressed on a cell, the pointer
\* dragged over cells, the button released, the pointer leaving the canvas;
\* children are locked and edits undone in between
NextCanvas ==
  \/ \E c \in SelCells : StartSelection(c) /\ UNCHANGED edits
  \/ \E c \in SelCells : isSelecting /\ AddToSelection(c) /\ UNCHANGED edits
  \/ /\ isSelecting
     /\ pendingSelection # <<>> => edits < MaxCanvasEdits
     /\ EndSelection
     /\ edits' = IF pendingSelection = <<>> THEN edits ELSE edits + 1
  \/ /\ (isSelecting /\ pendingSelection # <<>>) => edits < MaxCanvasEdits
     /\ HandleMouseLeave
     /\ edits' = IF isSelecting /\ pendingSelection # <<>> THEN edits + 1 ELSE edits
  \/ \E bp \in BpInputs : SetActiveBreakpoint(bp) /\ UNCHANGED edits
  \/ \E id \in ActiveChildIds : SetChildLock(id, TRUE) /\ UNCHANGED edits
  \/ Undo /\ UNCHANGED edits

SpecCanvas == Init /\ [][NextCanvas]_vars

\* ------------------------------------------------------ notions of the claims
\* deep equality of two layouts as the program reads them: same keys, same
\* values, a key holding undefined counting as a missing key
SameChild(c, d) ==
  /\ c.id = d.id
  /\ c.name = d.name
  /\ c.cells = d.cells
  /\ c.locked = d.locked
  /\ AreaNameOf(c) = AreaNameOf(d)

SameConfig(a, b) ==
  /\ a.grid = b.grid
  /\ Len(a.children) = Len(b.children)
  /\ \A i \in 1..Len(a.children) : SameChild(a.children[i], b.children[i])

SameLayout(a, b) ==
  /\ a.activeBreakpoint = b.activeBreakpoint
  /\ DOMAIN a.breakpoints = DOMAIN b.breakpoints
  /\ \A bp \in DOMAIN a.breakpoints : SameConfig(a.breakpoints[bp], b.breakpoints[bp])

ChildIdsOf(e) ==
  LET ch == ConfigOf(e.state, e.state.activeBreakpoint).children
  IN { ch[i].id : i \in 1..Len(ch) }

\* the bounding box of the pending selection holds a cell of a locked child of
\* the active breakpoint
LockedCellInBox(e) ==
  LET p    == e.pendingSelection
      rows == { p[i].row : i \in 1..Len(p) }
      cols == { p[i].column : i \in 1..Len(p) }
      ch   == ConfigOf(e.state, e.state.activeBreakpoint).children
  IN /\ Len(p) > 0
     /\ \E i \in 1..Len(ch) :
          /\ ch[i].locked
          /\ \E j \in 1..Len(ch[i].cells) :
               /\ ch[i].cells[j].row >= MinOf(rows)
               /\ ch[i].cells[j].row <= MaxOf(rows)
               /\ ch[i].cells[j].column >= MinOf(cols)
               /\ ch[i].cells[j].column <= MaxOf(cols)

\* the results of every history-pushing call that can be made on e: setRows,
\* setColumns, deleteChild, and endSelection when it commits
PushResultsOf(e) ==
  { setRows(e, d) : d \in RowDeltas }
    \cup { setColumns(e, d) : d \in ColDeltas }
    \cup { deleteChild(e, id) : id \in ChildIdsOf(e) }
    \cup (IF Len(e.pendingSelection) > 0 /\ ~LockedCellInBox(e)
            THEN {endSelection(e)} ELSE {})

\* ------------------------------------------------------------------ claims
\* C1: in every reachable state S, after any history-pushing call (setRows,
\* setColumns, a committed endSelection, deleteChild) an immediate undo()
\* makes the LayoutState deep-equal to S.
Thm_C1_UndoAfterPushRestores ==
  ~fault => \A e1 \in PushResultsOf(Eng) : SameLayout(undo(e1).state, state)

Wit_C1_PushThenUndo ==
  /\ lastOp = "undo"
  /\ prevOp = "push"
  /\ historyForward # <<>>
  /\ ~SameLayout(state, historyForward[1])

\* C2: with a non-empty undo stack, undo() followed at once by redo() gives
\* back the LayoutState, the undo stack and the redo stack of before the undo.
Thm_C2_RedoAfterUndoRestores ==
  (~fault /\ history # <<>>) =>
    LET e1 == undo(Eng)
        e2 == redo(e1)
    IN /\ SameLayout(e2.state, state)
       /\ e2.history = history
       /\ e2.historyForward = historyForward

Wit_C2_UndoThenRedo ==
  /\ lastOp = "redo"
  /\ prevOp = "undo"
  /\ history # <<>>
  /\ ~SameLayout(state, history[Len(history)])

\* C3: after an undo(), a new history-pushing call leaves the redo stack
\* empty: canRedo is false and redo() changes nothing.
Thm_C3_PushAfterUndoClearsRedo ==
  (~fault /\ history # <<>>) =>
    \A e2 \in PushResultsOf(undo(Eng)) :
      /\ e2.historyForward = <<>>
      /\ ~canRedo(e2)
      /\ redo(e2) = e2

Wit_C3_UndoThenPush ==
  /\ lastOp \in PushOps
  /\ prevOp = "undo"
  /\ historyForward = <<>>
  /\ history # <<>>

\* C4: endSelection called while the bounding box of the pending selection
\* holds a cell of a locked child of the active breakpoint adds no child and
\* leaves the LayoutState as it was.
Thm_C4_RejectedCommitKeepsLayout ==
  (~fault /\ LockedCellInBox(Eng)) => endSelection(Eng).state = state

Wit_C4_Rejected ==
  /\ lastOp = "endSelection:rejected"
  /\ \E i \in 1..Len(ConfigOf(state, state.activeBreakpoint).children) :
       ConfigOf(state, state.activeBreakpoint).children[i].locked

\* C5: a commit rejected for overlapping a locked child pushes no snapshot:
\* the undo stack keeps its length and contents and the redo stack is kept.
Claim_C5_RejectedCommitKeepsHistory ==
  (~fault /\ LockedCellInBox(Eng)) =>
    /\ endSelection(Eng).history = history
    /\ endSelection(Eng).historyForward = historyForward

\* C6: in every reachable state the undo stack holds at most MAX_HISTORY (50)
\* snapshots, redo included.
Thm_C6_UndoStackBounded ==
  Len(history) <= MAX_HISTORY

Wit_C6_FullStackAfterRedo ==
  /\ Len(history) = MAX_HISTORY
  /\ lastOp = "redo"
  /\ history[1] # deepCloneState(defaultLayoutState)

\* a text the import has to refuse: not JSON, or without version 1, or
\* without layout.breakpoints, or with an activeBreakpoint that is none of
\* desktop, tablet, mobile
Refusable(text) ==
  \/ text.kind # "object"
  \/ "version" \notin DOMAIN text.value
  \/ text.value.version # 1
  \/ "layout" \notin DOMAIN text.value
  \/ "breakpoints" \notin DOMAIN text.value.layout
  \/ "activeBreakpoint" \notin DOMAIN text.value.layout
  \/ text.value.layout.activeBreakpoint \notin Breakpoints

\* the texts handed to importLayout
TextsToImport ==
  { ImportTexts[i] : i \in 1..Len(ImportTexts) } \cup (IF exported = NoText THEN {} ELSE {exported})

\* C7: for a text that is not JSON, has no version 1, no layout.breakpoints
\* or an unknown activeBreakpoint, importLayout returns false and leaves the
\* LayoutState, both stacks and the selected child id unchanged.
Thm_C7_RefusedImportChangesNothing ==
  ~fault =>
    \A text \in TextsToImport :
      Refusable(text) =>
        /\ importLayoutResult(text) = FALSE
        /\ importLayout(Eng, text) = Eng

Wit_C7_RefusedWithHistory ==
  /\ lastOp = "importLayout:false"
  /\ history # <<>>
  /\ historyForward # <<>>
  /\ selectedChildId # Null

\* C8: importing the text of an export succeeds and makes the LayoutState
\* deep-equal to the state that was exported, whatever was done in between.
Thm_C8_ExportImportRoundTrip ==
  /\ ~fault => /\ importLayoutResult(exportLayout(Eng))
               /\ SameLayout(importLayout(Eng, exportLayout(Eng)).state, state)
  /\ exported # NoText =>
       /\ importLayoutResult(exported)
       /\ SameLayout(importLayout(Eng, exported).state, exportedFrom)

Wit_C8_ImportedAfterEdit ==
  /\ lastOp = "importLayout:true"
  /\ prevOp = "push"
  /\ exported # NoText
  /\ SameLayout(state, exportedFrom)
  /\ \E bp \in DOMAIN state.breakpoints :
       \E i \in 1..Len(state.breakpoints[bp].children) :
         state.breakpoints[bp].children[i].id <= idCounter

\* C9: an import that succeeds replaces the LayoutState by the layout of the
\* text, empties the undo and the redo stack (undo and redo then change
\* nothing) and sets the selected child id to null.
Thm_C9_ImportReplacesAndClears ==
  ~fault =>
    \A text \in TextsToImport :
      importLayoutResult(text) =>
        LET e1 == importLayout(Eng, text)
        IN /\ SameLayout(e1.state, text.value.layout)
           /\ e1.history = <<>>
           /\ e1.historyForward = <<>>
           /\ e1.selectedChildId = Null
           /\ undo(e1) = e1
           /\ redo(e1) = e1

Wit_C9_ImportedOverHistory ==
  /\ lastOp = "importLayout:true"
  /\ edits > 0
  /\ history = <<>>
  /\ historyForward = <<>>
  /\ selectedChildId = Null
  /\ SameLayout(state, SavedLayout)

\* C10: in every reachable state the LayoutState holds the three breakpoint
\* configs and activeBreakpoint names one of them.
Claim_C10_ThreeBreakpointsPresent ==
  /\ DOMAIN state.breakpoints = Breakpoints
  /\ state.activeBreakpoint \in DOMAIN state.breakpoints

\* the results of every call that edits a breakpoint config and can be made on
\* e: resize, grid update, commit, delete, child update, rename, lock
Deltas == {-1, 1}
ConfigEditsOf(e) ==
  { setRows(e, d) : d \in Deltas }
    \cup { setColumns(e, d) : d \in Deltas }
    \cup { setGridDefinition(e, u) : u \in GridUpdaterInputs }
    \cup { endSelection(e) }
    \cup { deleteChild(e, id) : id \in ChildIdsOf(e) }
    \cup { updateChild(e, id, u) :
             id \in ChildIdsOf(e),
             u \in {toggleLocked} \cup { withTypedName(n, e.useNamedAreas) : n \in TypedTexts } }

ChildIdsIn(s, bp) ==
  { s.breakpoints[bp].children[i].id : i \in 1..Len(s.breakpoints[bp].children) }

\* C11: setRows, setColumns, setGridDefinition, endSelection, deleteChild and
\* updateChild leave activeBreakpoint and the config of every breakpoint other
\* than the active one as they were, and no child id is in the lists of two
\* breakpoints.
Thm_C11_OnlyActiveConfigChanges ==
  ~fault =>
    /\ \A e1 \in ConfigEditsOf(Eng) :
         /\ e1.state.activeBreakpoint = state.activeBreakpoint
         /\ DOMAIN e1.state.breakpoints = DOMAIN state.breakpoints
         /\ \A bp \in (DOMAIN state.breakpoints) \ {state.activeBreakpoint} :
              e1.state.breakpoints[bp] = state.breakpoints[bp]
         /\ \A bp \in (DOMAIN state.breakpoints) \ {state.activeBreakpoint} :
              ChildIdsIn(e1.state, bp) \cap ChildIdsIn(e1.state, state.activeBreakpoint) = {}
    /\ \A a, b \in DOMAIN state.breakpoints :
         a # b => ChildIdsIn(state, a) \cap ChildIdsIn(state, b) = {}

Wit_C11_ChildrenOnTwoBreakpoints ==
  /\ lastOp = "endSelection:committed"
  /\ state.activeBreakpoint = "tablet"
  /\ ChildIdsIn(state, "desktop") # {}
  /\ ChildIdsIn(state, "tablet") # {}
  /\ state.breakpoints["mobile"] = defaultLayoutState.breakpoints["mobile"]

\* deltas of every size, up to beyond the whole range of track counts, in both
\* directions
AnyDeltas ==
  { k * d : k \in {-1, 1}, d \in {0, 1, 2, MaxTracks - 1, MaxTracks, MaxTracks + 2} }

TrackCountsInRange(s) ==
  \A bp \in DOMAIN s.breakpoints :
    /\ s.breakpoints[bp].grid.rowCount \in MinTracks..MaxTracks
    /\ s.breakpoints[bp].grid.columnCount \in MinTracks..MaxTracks

\* C12: whatever integer deltas setRows and setColumns are called with, among
\* the other operations (setGridDefinition and importLayout left out),
\* rowCount and columnCount of every breakpoint are in 1..20.
Thm_C12_TrackCountsClamped ==
  /\ TrackCountsInRange(state)
  /\ ~fault => \A d \in AnyDeltas :
                 /\ TrackCountsInRange(setRows(Eng, d).state)
                 /\ TrackCountsInRange(setColumns(Eng, d).state)

\* a setRows(+d) made on 20 rows, and a breakpoint brought down to one column
Wit_C12_ClampedAtBothEnds ==
  /\ lastOp = "setRows"
  /\ ConfigOf(state, state.activeBreakpoint).grid.rowCount = MaxTracks
  /\ history # <<>>
  /\ ConfigOf(history[Len(history)], state.activeBreakpoint).grid.rowCount = MaxTracks
  /\ ConfigOf(state, state.activeBreakpoint).grid.columnCount = MinTracks

SizesMatchCounts(s) ==
  \A bp \in DOMAIN s.breakpoints :
    /\ Len(s.breakpoints[bp].grid.rowSizes) = s.breakpoints[bp].grid.rowCount
    /\ Len(s.breakpoints[bp].grid.columnSizes) = s.breakpoints[bp].grid.columnCount

\* sizes is old followed by fr(1) tracks, or the first tracks of old
GrownOrCut(old, sizes) ==
  IF Len(sizes) >= Len(old)
    THEN /\ SubSeq(sizes, 1, Len(old)) = old
         /\ \A i \in (Len(old) + 1)..Len(sizes) : sizes[i] = [type |-> "fr", value |-> 1]
    ELSE sizes = SubSeq(old, 1, Len(sizes))

\* C13: from the default state, under setRows, setColumns, selection,
\* deleteChild, undo and redo, every breakpoint has as many row sizes as rows
\* and as many column sizes as columns; a resize appends fr(1) tracks or cuts
\* the list at its end, the tracks that stay keeping size and order.
Thm_C13_SizesFollowCounts ==
  /\ SizesMatchCounts(state)
  /\ ~fault =>
       LET g == ConfigOf(state, state.activeBreakpoint).grid
       IN \A d \in AnyDeltas :
            LET gr == ConfigOf(setRows(Eng, d).state, state.activeBreakpoint).grid
                gc == ConfigOf(setColumns(Eng, d).state, state.activeBreakpoint).grid
            IN /\ SizesMatchCounts(setRows(Eng, d).state)
               /\ SizesMatchCounts(setColumns(Eng, d).state)
               /\ GrownOrCut(g.rowSizes, gr.rowSizes)
               /\ gr.columnSizes = g.columnSizes
               /\ GrownOrCut(g.columnSizes, gc.columnSizes)
               /\ gc.rowSizes = g.rowSizes

\* columns just cut from several to one, on a grid grown to 20 rows
Wit_C13_GrownThenCut ==
  /\ lastOp = "setColumns"
  /\ history # <<>>
  /\ ConfigOf(history[Len(history)], state.activeBreakpoint).grid.columnCount > 1
  /\ ConfigOf(state, state.activeBreakpoint).grid.columnSizes = <<[type |-> "fr", value |-> 1]>>
  /\ Len(ConfigOf(state, state.activeBreakpoint).grid.rowSizes) = MaxTracks

\* cells is a full axis-aligned rectangle, each cell once
RectangleCells(cells) ==
  /\ Len(cells) > 0
  /\ \A i, j \in 1..Len(cells) : i # j => cells[i] # cells[j]
  /\ LET rows == { cells[i].row : i \in 1..Len(cells) }
         cols == { cells[i].column : i \in 1..Len(cells) }
     IN \A r \in MinOf(rows)..MaxOf(rows) : \A c \in MinOf(cols)..MaxOf(cols) :
          \E i \in 1..Len(cells) : cells[i] = [row |-> r, column |-> c]

\* cells covers exactly the bounding box of the selection
CoversBoxOf(cells, selection) ==
  LET rows == { selection[i].row : i \in 1..Len(selection) }
      cols == { selection[i].column : i \in 1..Len(selection) }
  IN { <<cells[i].row, cells[i].column>> : i \in 1..Len(cells) }
       = (MinOf(rows)..MaxOf(rows)) \X (MinOf(cols)..MaxOf(cols))

\* an endSelection that commits appends one unlocked child owning the whole
\* bounding box of the pending selection
CommitAppendsBox(e) ==
  LET ch  == ConfigOf(e.state, e.state.activeBreakpoint).children
      ch1 == ConfigOf(endSelection(e).state, e.state.activeBreakpoint).children
  IN /\ Len(ch1) = Len(ch) + 1
     /\ SubSeq(ch1, 1, Len(ch)) = ch
     /\ ch1[Len(ch1)].locked = FALSE
     /\ CoversBoxOf(ch1[Len(ch1)].cells, e.pendingSelection)
     /\ RectangleCells(ch1[Len(ch1)].cells)

\* C14: a committed endSelection appends exactly one child, last in the list
\* of the active breakpoint, unlocked, owning the bounding box of the pending
\* selection; and in every state reached without an updateChild that edits
\* cells, the cells of every child are a non-empty rectangle without
\* duplicates.
Claim_C14_ChildrenAreRectangles ==
  /\ (~fault /\ pendingSelection # <<>> /\ ~LockedCellInBox(Eng)) => CommitAppendsBox(Eng)
  /\ \A bp \in DOMAIN state.breakpoints :
       \A i \in 1..Len(state.breakpoints[bp].children) :
         RectangleCells(state.breakpoints[bp].children[i].cells)

NamesIn(s, bp) ==
  { s.breakpoints[bp].children[i].name : i \in 1..Len(s.breakpoints[bp].children) }

\* C15: the child a committed endSelection creates is named child<n> for the
\* least n >= 1 such that no child of the active breakpoint has that name,
\* whatever names other breakpoints hold and whatever n was used before.
Thm_C15_LowestUnusedName ==
  (~fault /\ pendingSelection # <<>> /\ ~LockedCellInBox(Eng)) =>
    LET bp    == state.activeBreakpoint
        used  == NamesIn(state, bp)
        ch1   == ConfigOf(endSelection(Eng).state, bp).children
        given == ch1[Len(ch1)].name
    IN \E n \in 1..(Cardinality(used) + 1) :
         /\ given = ChildName(n)
         /\ ChildName(n) \notin used
         /\ \A m \in 1..(n - 1) : ChildName(m) \in used

\* the second child ever made is named child1 again, on the tablet, while the
\* desktop keeps its own child1
Wit_C15_NameReusedAcrossBreakpoints ==
  /\ lastOp = "endSelection:committed"
  /\ state.activeBreakpoint = "tablet"
  /\ idCounter >= 2
  /\ ChildName(1) \in NamesIn(state, "desktop")
  /\ LET ch == ConfigOf(state, "tablet").children
     IN Len(ch) > 0 /\ ch[Len(ch)].name = ChildName(1) /\ ch[Len(ch)].id = idCounter

\* C16: after endSelection, whether it committed, was rejected for a locked
\* child or found the pending selection empty, the pending selection is empty
\* and no selection is in progress.
Thm_C16_EndSelectionClears ==
  /\ ~fault => /\ endSelection(Eng).pendingSelection = <<>>
               /\ endSelection(Eng).isSelecting = FALSE
  /\ lastOp \in {"endSelection:empty", "endSelection:rejected", "endSelection:committed"} =>
       pendingSelection = <<>> /\ isSelecting = FALSE

Wit_C16_ClearedAfterRejection ==
  /\ lastOp = "endSelection:rejected"
  /\ prevOp = "other"
  /\ pendingSelection = <<>>
  /\ isSelecting = FALSE
  /\ history # <<>>

\* e1 is e with at most the child id of the active breakpoint changed
OnlyChildChanged(e, e1, id) ==
  LET bp  == e.state.activeBreakpoint
      ch  == ConfigOf(e.state, bp).children
      ch1 == ConfigOf(e1.state, bp).children
  IN /\ e1 = [e EXCEPT !.state = e1.state]
     /\ e1.state = WithConfig(e.state, bp, [ConfigOf(e.state, bp) EXCEPT !.children = ch1])
     /\ Len(ch1) = Len(ch)
     /\ \A i \in 1..Len(ch) : ch[i].id # id => ch1[i] = ch[i]
     /\ \A i \in 1..Len(ch) : ch1[i].id = ch[i].id /\ ch1[i].cells = ch[i].cells

\* e1 is e with at most the grid of the active breakpoint changed
OnlyGridChanged(e, e1) ==
  LET bp == e.state.activeBreakpoint
  IN /\ e1 = [e EXCEPT !.state = e1.state]
     /\ e1.state = WithConfig(e.state, bp,
                       [ConfigOf(e.state, bp) EXCEPT !.grid = ConfigOf(e1.state, bp).grid])

\* the child updaters the inspector and the hook build in state e
UpdatersIn(e) ==
  {toggleLocked}
    \cup { withLocked(b) : b \in BOOLEAN }
    \cup { withTypedName(n, e.useNamedAreas) : n \in TypedTexts \cup NameTexts }
    \cup { withTrimmedName(n, e.useNamedAreas) : n \in TypedTexts \cup NameTexts }

\* C17: updateChild, setChildLock, setChildName and setGridDefinition push no
\* snapshot: the undo and the redo stack are the same after the call, and
\* nothing but the child named, or the grid, of the active breakpoint changes.
Thm_C17_UpdatesPushNoHistory ==
  ~fault =>
    /\ \A id \in ChildIdsOf(Eng) \cup {Null} :
         /\ \A u \in UpdatersIn(Eng) :
              /\ updateChild(Eng, id, u).history = history
              /\ updateChild(Eng, id, u).historyForward = historyForward
              /\ OnlyChildChanged(Eng, updateChild(Eng, id, u), id)
         /\ \A b \in BOOLEAN :
              /\ setChildLock(Eng, id, b).history = history
              /\ setChildLock(Eng, id, b).historyForward = historyForward
              /\ OnlyChildChanged(Eng, setChildLock(Eng, id, b), id)
         /\ \A n \in TypedTexts \cup NameTexts :
              /\ setChildName(Eng, id, n).history = history
              /\ setChildName(Eng, id, n).historyForward = historyForward
              /\ OnlyChildChanged(Eng, setChildName(Eng, id, n), id)
    /\ \A u \in GridUpdaterInputs :
         /\ setGridDefinition(Eng, u).history = history
         /\ setGridDefinition(Eng, u).historyForward = historyForward
         /\ OnlyGridChanged(Eng, setGridDefinition(Eng, u))

\* a child renamed by setChildName while there is something to undo and
\* something to redo
Wit_C17_RenamedBetweenUndoAndRedo ==
  /\ lastOp = "setChildName"
  /\ history # <<>>
  /\ historyForward # <<>>
  /\ <<"hero", "0">> \in NamesIn(state, state.activeBreakpoint)

\* C18: setActiveBreakpoint(bp) makes bp the active breakpoint, sets the
\* selected child id to null and empties the pending selection; the undo
\* stack, the redo stack and the breakpoint configs stay as they were.
Thm_C18_SwitchClearsSelectionOnly ==
  ~fault =>
    \A bp \in Breakpoints :
      LET e1 == setActiveBreakpoint(Eng, bp)
      IN /\ e1.state.activeBreakpoint = bp
         /\ e1.selectedChildId = Null
         /\ e1.pendingSelection = <<>>
         /\ e1.history = history
         /\ e1.historyForward = historyForward
         /\ e1.state.breakpoints = state.breakpoints

\* a switch made in the middle of a drag, over a desktop that has a child and
\* with something to undo and to redo
Wit_C18_SwitchedDuringDrag ==
  /\ lastOp = "setActiveBreakpoint"
  /\ state.activeBreakpoint = "tablet"
  /\ isSelecting = TRUE
  /\ pendingSelection = <<>>
  /\ selectedChildId = Null
  /\ ChildIdsIn(state, "desktop") # {}
  /\ history # <<>>
  /\ historyForward # <<>>

\* ch1 is ch without its one element of that id, the others in their order
WithoutChild(ch, ch1, id) ==
  \E i \in 1..Len(ch) :
    /\ ch[i].id = id
    /\ ch1 = SubSeq(ch, 1, i - 1) \o SubSeq(ch, i + 1, Len(ch))
    /\ \A j \in 1..Len(ch1) : ch1[j].id # id

\* C19: deleteChild(id) puts the state of before on top of the undo stack,
\* takes the child with that id, and no other, out of the active breakpoint,
\* the others keeping their order, and sets the selected child id to null
\* exactly when the deleted child was the selected one.
Thm_C19_DeleteRemovesOneChild ==
  ~fault =>
    \A id \in ChildIdsOf(Eng) :
      LET e1 == deleteChild(Eng, id)
          bp == state.activeBreakpoint
      IN /\ Len(e1.history) = Len(history) + 1
         /\ SubSeq(e1.history, 1, Len(history)) = history
         /\ SameLayout(e1.history[Len(e1.history)], state)
         /\ WithoutChild(ConfigOf(state, bp).children, ConfigOf(e1.state, bp).children, id)
         /\ e1.state = WithConfig(state, bp,
               [ConfigOf(state, bp) EXCEPT !.children = ConfigOf(e1.state, bp).children])
         /\ e1.selectedChildId = (IF selectedChildId = id THEN Null ELSE selectedChildId)

\* a child deleted while another one was selected and stays selected
Wit_C19_DeletedBesideSelected ==
  /\ lastOp = "deleteChild"
  /\ selectedChildId # Null
  /\ selectedChildId \in ChildIdsIn(state, state.activeBreakpoint)
  /\ history # <<>>
  /\ Len(ConfigOf(history[Len(history)], state.activeBreakpoint).children) = 2

\* C20: undo() on an empty undo stack and redo() on an empty redo stack change
\* nothing: not the LayoutState, the stacks, the selected child id or the
\* pending selection.
Thm_C20_EmptyStackNoOp ==
  ~fault =>
    /\ history = <<>> => undo(Eng) = Eng
    /\ historyForward = <<>> => redo(Eng) = Eng

\* an undo that found nothing to undo, in the middle of a drag and with a
\* state left to redo
Wit_C20_UndoOnEmptyStack ==
  /\ lastOp = "undo:noop"
  /\ history = <<>>
  /\ historyForward # <<>>
  /\ pendingSelection # <<>>
  /\ isSelecting = TRUE

\* C21: a successful undo() (non-empty undo stack) sets the selected child id
\* to null; a successful redo() (non-empty redo stack) leaves the selected
\* child id exactly as it was.
Thm_C21_UndoDeselectsRedoKeeps ==
  ~fault =>
    /\ history # <<>> => undo(Eng).selectedChildId = Null
    /\ historyForward # <<>> => redo(Eng).selectedChildId = selectedChildId

\* a redo done while a child was selected, which is still selected, and an
\* undo stack from which the next undo will deselect it
Wit_C21_RedoneWithSelection ==
  /\ lastOp = "redo"
  /\ selectedChildId # Null
  /\ selectedChildId \in ChildIdsIn(state, state.activeBreakpoint)
  /\ history # <<>>

\* cells the pointer is dragged over: the two corners of the drag and the cell
\* between them
DragCells == SelCells \cup { [row |-> 0, column |-> 1] }

\* the drags of at most MaxDragLen pointer events, as lists of cells
DragPaths == UNION { [1..n -> DragCells] : n \in 1..MaxDragLen }

\* the hook after startSelection(cells[1]) and addToSelection of cells[2..n]
RECURSIVE AfterDrag(_, _, _)
AfterDrag(e, cells, n) ==
  IF n = 1 THEN startSelection(e, cells[1])
  ELSE addToSelection(AfterDrag(e, cells, n - 1), cells[n])

\* the first n cells of a list with every repeated cell left out
RECURSIVE FirstOccurrences(_, _)
FirstOccurrences(cells, n) ==
  IF n = 0 THEN <<>>
  ELSE IF \E j \in 1..(n - 1) : cells[j] = cells[n]
         THEN FirstOccurrences(cells, n - 1)
         ELSE Append(FirstOccurrences(cells, n - 1), cells[n])

NoDuplicateCells(cells) ==
  \A i, j \in 1..Len(cells) : cells[i] = cells[j] => i = j

\* C22: addToSelection(cell) leaves the hook unchanged when the pending
\* selection already holds a cell with that row and column and otherwise
\* appends the cell at the end; so the pending selection never holds a cell
\* twice, and after startSelection followed by any addToSelection calls it is
\* the list of the cells in the order of their first occurrence.
Thm_C22_AddToSelectionAppendsOnce ==
  /\ NoDuplicateCells(pendingSelection)
  /\ ~fault =>
       /\ \A c \in DragCells :
            LET present == \E i \in 1..Len(pendingSelection) :
                             /\ pendingSelection[i].row = c.row
                             /\ pendingSelection[i].column = c.column
            IN addToSelection(Eng, c) =
                 IF present THEN Eng
                 ELSE [Eng EXCEPT !.pendingSelection = Append(pendingSelection, c)]
       /\ \A path \in DragPaths :
            LET e1 == AfterDrag(Eng, path, Len(path))
            IN /\ e1.pendingSelection = FirstOccurrences(path, Len(path))
               /\ NoDuplicateCells(e1.pendingSelection)
               /\ e1 = [Eng EXCEPT !.pendingSelection = e1.pendingSelection,
                                   !.isSelecting = TRUE]

\* a drag that began on the lower cell and went on to the upper one, over a
\* layout that already has a child
Wit_C22_DraggedUpwards ==
  /\ lastOp = "addToSelection"
  /\ isSelecting = TRUE
  /\ Len(pendingSelection) = 2
  /\ pendingSelection[1].row > pendingSelection[2].row
  /\ ActiveChildIds # {}

\* some cell of the bounding box of the cells is not among them
MissesBoxCell(cells) ==
  LET rows == { cells[i].row : i \in 1..Len(cells) }
      cols == { cells[i].column : i \in 1..Len(cells) }
  IN \E r \in MinOf(rows)..MaxOf(rows) : \E c \in MinOf(cols)..MaxOf(cols) :
       \A i \in 1..Len(cells) : cells[i] # [row |-> r, column |-> c]

\* the number of cells of the bounding box of the cells
BoxSize(cells) ==
  LET rows == { cells[i].row : i \in 1..Len(cells) }
      cols == { cells[i].column : i \in 1..Len(cells) }
  IN Cardinality((MinOf(rows)..MaxOf(rows)) \X (MinOf(cols)..MaxOf(cols)))

\* C24 as claimed: isRectangularSelection returns false for the empty list,
\* true for every non-empty list that holds each cell of its bounding box
\* exactly once, and false for every list, repeated cells allowed, that
\* misses a cell of its bounding box.
Claim_C24_FalseWheneverCellMissing ==
  callee = "isRectangularSelection" =>
    /\ args.cells = <<>> => result = FALSE
    /\ RectangleCells(args.cells) => result = TRUE
    /\ (args.cells # <<>> /\ MissesBoxCell(args.cells)) => result = FALSE

\* C24 amended: isRectangularSelection returns false for the empty list, true
\* for every non-empty list that holds each cell of its bounding box exactly
\* once, and false for every list without repeated cells that misses a cell of
\* its bounding box; a list with repeated cells is reported rectangular
\* exactly when its length equals the size of its bounding box.
Thm_C24_CountsCellsOfBox ==
  callee = "isRectangularSelection" =>
    /\ args.cells = <<>> => result = FALSE
    /\ RectangleCells(args.cells) => result = TRUE
    /\ (args.cells # <<>> /\ NoDuplicateCells(args.cells) /\ MissesBoxCell(args.cells)) =>
         result = FALSE
    /\ (args.cells # <<>> /\ ~NoDuplicateCells(args.cells)) =>
         result = (Len(args.cells) = BoxSize(args.cells))

\* three different cells in an L, refused as a rectangle
Wit_C24_RefusedL ==
  /\ callee = "isRectangularSelection"
  /\ result = FALSE
  /\ Len(args.cells) = 3
  /\ NoDuplicateCells(args.cells)
  /\ MissesBoxCell(args.cells)
  /\ BoxSize(args.cells) = 4

\* C25: for every non-empty cell list, in any order and with repeated cells,
\* expandToBoundingBox applied to its own result returns that result, the
\* result holds every cell of the list, and the result satisfies
\* isRectangularSelection (each cell of the bounding box exactly once); for
\* the empty list the result is empty.
Thm_C25_BoundingBoxIdempotent ==
  callee = "expandToBoundingBox" =>
    /\ args.cells = <<>> => result = <<>>
    /\ args.cells # <<>> =>
         /\ expandToBoundingBox(result) = result
         /\ \A i \in 1..Len(args.cells) : args.cells[i] \in Range(result)
         /\ isRectangularSelection(result)
         /\ RectangleCells(result)
         /\ Len(result) = BoxSize(args.cells)

\* two opposite corners, one of them given twice, expanded to the four cells
\* of their box
Wit_C25_CornersExpanded ==
  /\ callee = "expandToBoundingBox"
  /\ Len(args.cells) = 3
  /\ ~NoDuplicateCells(args.cells)
  /\ MissesBoxCell(args.cells)
  /\ Len(result) = 4

\* C26: for every cell list splitIntoRectangles returns (the loop ends: each
\* turn emits a non-empty region, so there are at most as many regions as
\* cells) regions that are pairwise disjoint, whose union is exactly the set
\* of the cells of the list, and each of which satisfies
\* isRectangularSelection and is a rectangle without repeated cells.
Thm_C26_SplitPartitionsIntoRectangles ==
  callee = "splitIntoRectangles" =>
    /\ Len(result) <= Len(args.cells)
    /\ \A i \in 1..Len(result) :
         /\ isRectangularSelection(result[i])
         /\ RectangleCells(result[i])
    /\ \A i, j \in 1..Len(result) :
         i # j => Range(result[i]) \cap Range(result[j]) = {}
    /\ UNION { Range(result[i]) : i \in 1..Len(result) } = Range(args.cells)

\* an L of three cells, one of them given twice, split into two rectangles
Wit_C26_SplitL ==
  /\ callee = "splitIntoRectangles"
  /\ Len(args.cells) = 4
  /\ Cardinality(Range(args.cells)) = 3
  /\ BoxSize(args.cells) = 4
  /\ Len(result) = 2
  /\ Len(result[1]) = 2

\* the grid-row or grid-column value of a child on the given track indices
LinesOf(indices) ==
  IF Cardinality(indices) = 1 THEN ToString(MinOf(indices) + 1)
  ELSE ToString(MinOf(indices) + 1) \o " / " \o ToString(MaxOf(indices) + 2)

\* C27: for every non-empty rectangular cell list getChildPlacement returns,
\* per axis, the line min index + 1 alone when the child is on one track and
\* "min index + 1 / max index + 2" otherwise (the four cells of rows 0..1 and
\* columns 0..1 give "1 / 3" on both axes); for the empty list both axes are
\* "auto".
Thm_C27_PlacementLines ==
  callee = "getChildPlacement" =>
    /\ args.cells = <<>> => result = [row |-> "auto", column |-> "auto"]
    /\ RectangleCells(args.cells) =>
         /\ result.row = LinesOf({ args.cells[i].row : i \in 1..Len(args.cells) })
         /\ result.column = LinesOf({ args.cells[i].column : i \in 1..Len(args.cells) })
    /\ { cellKey(args.cells[i]) : i \in 1..Len(args.cells) } = (0..1) \X (0..1) =>
         result = [row |-> "1 / 3", column |-> "1 / 3"]
    /\ args.cells = << [row |-> 2, column |-> 1], [row |-> 1, column |-> 1] >> =>
         result = [row |-> "2 / 4", column |-> "2"]

\* a child of two rows in the second column
Wit_C27_TwoRowsOneColumn ==
  /\ callee = "getChildPlacement"
  /\ RectangleCells(args.cells)
  /\ result = [row |-> "1 / 3", column |-> "2"]

\* every cell of every child of the config is a cell of the config's grid
ChildrenInsideGrid(config) ==
  \A i \in 1..Len(config.children) : \A j \in 1..Len(config.children[i].cells) :
    LET cell == config.children[i].cells[j]
    IN /\ cell.row \in 0..(config.grid.rowCount - 1)
       /\ cell.column \in 0..(config.grid.columnCount - 1)

\* C23: in every state reached from the default state by engine operations
\* with the selection cells taken inside the current grid, the code panel has
\* rendered without an exception, the CSS of every breakpoint is generated
\* without an exception in line-based and in named-area mode, and every cell
\* of every child lies inside the grid of its breakpoint, also after setRows
\* and setColumns have shrunk the grid.
Claim_C23_CodegenNeverFaults ==
  /\ ~fault
  /\ \A bp \in DOMAIN state.breakpoints :
       LET config == ConfigOf(state, bp)
       IN /\ generateFullCSS(config, FALSE, <<"parent">>).type = "normal"
          /\ generateFullCSS(config, TRUE, <<"parent">>).type = "normal"
          /\ ChildrenInsideGrid(config)

\* the pieces of a text between the occurrences of a separator token
RECURSIVE SplitText(_, _)
SplitText(text, sep) ==
  IF \A k \in 1..Len(text) : text[k] # sep THEN <<text>>
  ELSE LET k == CHOOSE k \in 1..Len(text) :
                  text[k] = sep /\ \A j \in 1..(k - 1) : text[j] # sep
       IN <<SubSeq(text, 1, k - 1)>> \o SplitText(SubSeq(text, k + 1, Len(text)), sep)

\* the rows of a grid-template-areas value, each the list of its area names
AreaMatrix(areas) ==
  LET rows == SplitText(areas, "\n  ")
  IN [ r \in 1..Len(rows) |-> SplitText(SubSeq(rows[r], 2, Len(rows[r]) - 1), " ") ]

\* the bounding box of the child's cells contains the cell (r, c)
BoxContains(ch, r, c) ==
  /\ \E i, j \in 1..Len(ch.cells) : ch.cells[i].row <= r /\ r <= ch.cells[j].row
  /\ \E i, j \in 1..Len(ch.cells) : ch.cells[i].column <= c /\ c <= ch.cells[j].column

\* the area name generateTemplateAreas gives a child
AreaNameGiven(ch) == toClassName(areaNameOrName(ch))

\* the child has no area name: areaName, else name, is missing or blank
NoAreaName(ch) == trim(areaNameOrName(ch)) = EmptyText

\* C28: generateTemplateAreas yields a matrix of rowCount rows and
\* columnCount columns in which each cell holds the area name of the last
\* child of the list whose bounding box contains the cell, and "." when the
\* bounding box of no child contains it.
Claim_C28_LastChildWins ==
  callee = "generateTemplateAreas" =>
    /\ result.type = "normal"
    /\ LET matrix == AreaMatrix(result.value)
       IN /\ Len(matrix) = args.rowCount
          /\ \A r \in 1..Len(matrix) : Len(matrix[r]) = args.columnCount
          /\ \A r \in 1..args.rowCount : \A c \in 1..args.columnCount :
               LET over == { i \in 1..Len(args.children) :
                               BoxContains(args.children[i], r - 1, c - 1) }
               IN matrix[r][c] = IF over = {} THEN <<".">>
                                 ELSE AreaNameGiven(args.children[MaxOf(over)])

\* C29: for a child without an area name (areaName, else name, missing or
\* blank) generateTemplateAreas paints no cell: a cell that only such children
\* cover stays "."; and generateChildCSSArea returns for it the line-based
\* rule of generateChildCSS, with no grid-area declaration.
Claim_C29_BlankAreaNameSkipped ==
  /\ (callee = "generateTemplateAreas" /\ result.type = "normal") =>
       LET matrix == AreaMatrix(result.value)
       IN \A r \in 1..Len(matrix) : \A c \in 1..Len(matrix[r]) :
            LET over == { i \in 1..Len(args.children) :
                            BoxContains(args.children[i], r - 1, c - 1) }
            IN (over # {} /\ \A i \in over : NoAreaName(args.children[i])) =>
                 matrix[r][c] = <<".">>
  /\ (callee = "generateChildCSSArea" /\ NoAreaName(args.children[args.child])) =>
       /\ result = generateChildCSS(args.children[args.child], Undefined)
       /\ \A k \in 1..Len(result) : result[k] # " {\n  grid-area: "

\* the hook after n calls of undo()
RECURSIVE UndoTimes(_, _)
UndoTimes(e, n) ==
  IF n = 0 THEN e
  ELSE LET e1 == undo(e)
       IN CASE Len(e1.history) >= 0 -> UndoTimes(e1, n - 1)   \* e1 evaluated first

\* the hook after n calls of setRows(1), a history-pushing mutation each
RECURSIVE AfterPushes(_, _)
AfterPushes(e, n) ==
  IF n = 0 THEN e
  ELSE LET e1 == setRows(e, 1)
       IN CASE Len(e1.history) >= 0 -> AfterPushes(e1, n - 1)   \* e1 evaluated first

\* the hook as useState initialises it
DefaultHook ==
  [ state            |-> defaultLayoutState,
    history          |-> <<>>,
    historyForward   |-> <<>>,
    selectedChildId  |-> Null,
    pendingSelection |-> <<>>,
    isSelecting      |-> FALSE,
    useNamedAreas    |-> FALSE,
    idCounter        |-> 0 ]

\* C30: a push that arrives at an undo stack of MAX_HISTORY (50) snapshots
\* drops the oldest one and keeps the other 49 in their order below the new
\* one; MAX_HISTORY undos after it end in what was the second oldest snapshot,
\* with an empty stack on which one more undo changes nothing.  So once the
\* hook is where 51 history-pushing mutations take it from the default state,
\* 50 undos end in the state after the first mutation and the 51st undo is a
\* no-op.
Thm_C30_OldestSnapshotEvicted ==
  /\ (~fault /\ Len(history) = MAX_HISTORY) =>
       \A e1 \in PushResultsOf(Eng) :
         LET back == UndoTimes(e1, MAX_HISTORY)
         IN /\ Len(e1.history) = MAX_HISTORY
            /\ SubSeq(e1.history, 1, MAX_HISTORY - 1) = Tail(history)
            /\ SameLayout(e1.history[MAX_HISTORY], state)
            /\ SameLayout(back.state, history[2])
            /\ back.history = <<>>
            /\ undo(back) = back
  /\ (Len(history) = MAX_HISTORY /\ historyForward = <<>>
        /\ Eng = AfterPushes(DefaultHook, MAX_HISTORY + 1)) =>
       LET back == UndoTimes(Eng, MAX_HISTORY)
       IN /\ SameLayout(back.state, setRows(DefaultHook, 1).state)
          /\ ~SameLayout(back.state, defaultLayoutState)
          /\ undo(back) = back

\* 51 calls of setRows(1) from the default state and then 50 undos: the stack
\* is empty, the 50 undone states wait on the redo stack, and the state is the
\* one the first setRows(1) made, not the default one
Wit_C30_FiftyUndosAfterFiftyOnePushes ==
  /\ lastOp = "undo"
  /\ prevOp = "undo"
  /\ history = <<>>
  /\ Len(historyForward) = MAX_HISTORY
  /\ SameLayout(state, setRows(DefaultHook, 1).state)
  /\ SameLayout(historyForward[MAX_HISTORY], AfterPushes(DefaultHook, MAX_HISTORY + 1).state)


\* C31: two undo() calls issued back to back, before the hook re-renders, have
\* the effect of two sequential undos: the state ends two snapshots back, the
\* undo stack is two shorter and the redo stack gains the two undone states in
\* order.
Claim_C31_TwoUndosAsSequential ==
  (~fault /\ Len(history) >= 2) =>
    LET twice == undoOfRender(Eng, undoOfRender(Eng, Eng))
    IN /\ twice = undo(undo(Eng))
       /\ SameLayout(twice.state, history[Len(history) - 1])
       /\ twice.history = SubSeq(history, 1, Len(history) - 2)
       /\ twice.historyForward = <<history[Len(history)], state>> \o historyForward


\* C32: when the pointer leaves the canvas while a drag selection is in
\* progress, the pending selection is discarded without being committed: no
\* child is created, the LayoutState is unchanged and no history is pushed.
Claim_C32_LeaveDiscardsSelection ==
  (~fault /\ isSelecting /\ pendingSelection # <<>>) =>
    LET left == handleMouseLeave(Eng)
    IN /\ left.pendingSelection = <<>>
       /\ left.isSelecting = FALSE
       /\ left.state = state
       /\ left.history = history
       /\ left.historyForward = historyForward


\* the cells of a child, as keys
CellKeysOf(child) == { cellKey(child.cells[i]) : i \in 1..Len(child.cells) }

\* C33: in every reachable state, no cell owned by a locked child is also
\* owned by another child of the same breakpoint.
Claim_C33_LockedCellsExclusive ==
  \A bp \in DOMAIN state.breakpoints :
    LET ch == state.breakpoints[bp].children
    IN \A i \in 1..Len(ch) : \A j \in 1..Len(ch) :
         (i # j /\ ch[i].locked) => CellKeysOf(ch[i]) \cap CellKeysOf(ch[j]) = {}


\* the first cell of the list is the top-left corner of its bounding box
StartsAtTopLeft(cells) ==
  /\ cells[1].row = MinOf({ cells[i].row : i \in 1..Len(cells) })
  /\ cells[1].column = MinOf({ cells[i].column : i \in 1..Len(cells) })

\* C34 as claimed: for every non-empty input whose cell set is a full
\* axis-aligned rectangle, splitIntoRectangles returns exactly one region,
\* whatever the order of the cells in the input list.
Claim_C34_OneRegionWhateverOrder ==
  (callee = "splitIntoRectangles" /\ args.cells # <<>> /\ ~MissesBoxCell(args.cells)) =>
    Len(result) = 1

\* C34 amended: for every non-empty input whose cell set is a full
\* axis-aligned rectangle, splitIntoRectangles returns exactly one region,
\* holding each cell of the rectangle once, when the first cell of the list is
\* the rectangle's top-left corner, whatever the order of the cells after it;
\* when the list starts with any other cell it returns more than one region.
Thm_C34_OneRegionFromTopLeft ==
  (callee = "splitIntoRectangles" /\ args.cells # <<>> /\ ~MissesBoxCell(args.cells)) =>
    IF StartsAtTopLeft(args.cells)
      THEN /\ Len(result) = 1
           /\ Range(result[1]) = Range(args.cells)
           /\ Len(result[1]) = BoxSize(args.cells)
      ELSE Len(result) > 1

\* the four cells of a square, the top-left one first and the bottom-right one
\* second, split into the one region
Wit_C34_SquareFromCorner ==
  /\ callee = "splitIntoRectangles"
  /\ Len(args.cells) = 4
  /\ NoDuplicateCells(args.cells)
  /\ ~MissesBoxCell(args.cells)
  /\ BoxSize(args.cells) = 4
  /\ StartsAtTopLeft(args.cells)
  /\ args.cells[2].row > args.cells[1].row
  /\ args.cells[2].column > args.cells[1].column
  /\ Len(result) = 1


\* C35: as long as setSelectedChildId is only called with null or the id of a
\* child of the active breakpoint, the selected child id is null or the id of
\* a child in the active breakpoint's current child list: it never dangles
\* after deleteChild, undo, redo, setActiveBreakpoint or importLayout.
Claim_C35_SelectionNeverDangles ==
  selectedChildId = Null \/ selectedChildId \in ActiveChildIds


\* C36: undo and redo restore activeBreakpoint together with the breakpoint
\* configs of the snapshot: after a history-pushing call made while breakpoint
\* A is active, followed by setActiveBreakpoint(B) and undo(), the active
\* breakpoint is A again and the layout is the one of before the call; a
\* following redo() makes the active breakpoint B, with the configs the call
\* had made. The switch itself pushes no history.
Thm_C36_UndoRedoRestoreBreakpoint ==
  ~fault =>
    \A e1 \in PushResultsOf(Eng) : \A B \in Breakpoints :
      LET e2 == setActiveBreakpoint(e1, B)
          e3 == undo(e2)
          e4 == redo(e3)
      IN /\ e1.state.activeBreakpoint = state.activeBreakpoint
         /\ e2.history = e1.history
         /\ e2.historyForward = e1.historyForward
         /\ e3.state.activeBreakpoint = state.activeBreakpoint
         /\ SameLayout(e3.state, state)
         /\ e4.state.activeBreakpoint = B
         /\ SameLayout(e4.state, e2.state)
         /\ \A bp \in DOMAIN e1.state.breakpoints :
              SameConfig(e4.state.breakpoints[bp], e1.state.breakpoints[bp])

\* a redo that has just moved the editor from desktop, where the undo before
\* it had put it, back to tablet
Wit_C36_RedoneOntoTablet ==
  /\ lastOp = "redo"
  /\ prevOp = "undo"
  /\ state.activeBreakpoint = "tablet"
  /\ history # <<>>
  /\ history[Len(history)].activeBreakpoint = "desktop"
  /\ ~SameLayout(history[Len(history)], [state EXCEPT !.activeBreakpoint = "desktop"])

====
